---- MODULE Spec2Model ----
(***************************************************************************)
(* Verification model of NZB-Notify: the URL decomposer                    *)
(* (ScriptBase.parse_url), the dispatcher (NotifyScript.notify) and the    *)
(* notifier base class and backends of pnotify.                            *)
(*                                                                         *)
(* Python strings are TLA+ strings; a character is a string of length 1.   *)
(* Python's None is the string NoneVal, which no modelled input contains.  *)
(***************************************************************************)
EXTENDS Integers, Sequences, FiniteSets, TLC

(***************************************************************************)
(* Characters and string helpers (Python str methods and the re module).   *)
(***************************************************************************)
NoneVal == "<None>"

Digits == {"0", "1", "2", "3", "4", "5", "6", "7", "8", "9"}
Lowers == {"a", "b", "c", "d", "e", "f", "g", "h", "i", "j", "k", "l", "m",
           "n", "o", "p", "q", "r", "s", "t", "u", "v", "w", "x", "y", "z"}
Uppers == {"A", "B", "C", "D", "E", "F", "G", "H", "I", "J", "K", "L", "M",
           "N", "O", "P", "Q", "R", "S", "T", "U", "V", "W", "X", "Y", "Z"}
AlNum == Digits \cup Lowers \cup Uppers
\* the regular expression class \s
WS == {" ", "\t", "\r", "\n"}
Slashes == {"/", "\\"}

\* s[i-1:i], s[i-1:] and s[:i] with Python's clamping of slice bounds
Ch(s, i) == IF i >= 1 /\ i <= Len(s) THEN SubSeq(s, i, i) ELSE ""
From(s, i) == SubSeq(s, IF i < 1 THEN 1 ELSE i, Len(s))
Upto(s, i) == SubSeq(s, 1, IF i > Len(s) THEN Len(s) ELSE i)
LastCh(s) == Ch(s, Len(s))

MinOf(S) == CHOOSE i \in S : \A j \in S : i <= j
MaxOf(S) == CHOOSE i \in S : \A j \in S : i >= j

\* index of the first character of s that is in set C, 0 when there is none
FirstIn(s, C) ==
    LET I == {i \in 1..Len(s) : Ch(s, i) \in C}
    IN  IF I = {} THEN 0 ELSE MinOf(I)

\* index of the first character of s that is not in set C, Len(s)+1 when
\* there is none
FirstNotIn(s, C) ==
    LET I == {i \in 1..Len(s) : Ch(s, i) \notin C}
    IN  IF I = {} THEN Len(s) + 1 ELSE MinOf(I)

\* index of the last character of s that is in set C, 0 when there is none
LastIn(s, C) ==
    LET I == {i \in 1..Len(s) : Ch(s, i) \in C}
    IN  IF I = {} THEN 0 ELSE MaxOf(I)

\* index of the last character of s that is not in set C, 0 when none
LastNotIn(s, C) ==
    LET I == {i \in 1..Len(s) : Ch(s, i) \notin C}
    IN  IF I = {} THEN 0 ELSE MaxOf(I)

\* str.lstrip(C), str.rstrip(C), str.strip(C)
LStrip(s, C) == From(s, FirstNotIn(s, C))
RStrip(s, C) == Upto(s, LastNotIn(s, C))
StripSet(s, C) == RStrip(LStrip(s, C), C)
\* str.strip()
Strip(s) == StripSet(s, WS)

LowerOf == [c \in Uppers |->
    CASE c = "A" -> "a" [] c = "B" -> "b" [] c = "C" -> "c" [] c = "D" -> "d"
      [] c = "E" -> "e" [] c = "F" -> "f" [] c = "G" -> "g" [] c = "H" -> "h"
      [] c = "I" -> "i" [] c = "J" -> "j" [] c = "K" -> "k" [] c = "L" -> "l"
      [] c = "M" -> "m" [] c = "N" -> "n" [] c = "O" -> "o" [] c = "P" -> "p"
      [] c = "Q" -> "q" [] c = "R" -> "r" [] c = "S" -> "s" [] c = "T" -> "t"
      [] c = "U" -> "u" [] c = "V" -> "v" [] c = "W" -> "w" [] c = "X" -> "x"
      [] c = "Y" -> "y" [] OTHER -> "z"]

\* str.lower()
RECURSIVE Lower(_)
Lower(s) ==
    LET i == FirstIn(s, Uppers)
    IN  IF i = 0 THEN s
        ELSE Upto(s, i - 1) \o LowerOf[Ch(s, i)] \o Lower(From(s, i + 1))

\* re.split('[C]+', s): split s at every maximal run of characters of C;
\* like Python, a run at the start or end gives an empty first or last part
RECURSIVE SplitRuns(_, _)
SplitRuns(s, C) ==
    LET i == FirstIn(s, C)
    IN  IF i = 0 THEN <<s>>
        ELSE <<Upto(s, i - 1)>> \o SplitRuns(LStrip(From(s, i), C), C)

\* filter(bool, parts): drop the empty strings
NonEmpty(parts) == SelectSeq(parts, LAMBDA p : p # "")

\* sep.join(parts)
RECURSIVE Join(_, _)
Join(parts, sep) ==
    IF parts = << >> THEN ""
    ELSE IF Len(parts) = 1 THEN parts[1]
    ELSE parts[1] \o sep \o Join(Tail(parts), sep)

\* str.replace(old, new), for non-empty old
RECURSIVE Replace(_, _, _)
Replace(s, old, new) ==
    LET n == Len(old)
        I == {i \in 1..(Len(s) - n + 1) : SubSeq(s, i, i + n - 1) = old}
    IN  IF I = {} THEN s
        ELSE Upto(s, MinOf(I) - 1) \o new
             \o Replace(From(s, MinOf(I) + n), old, new)

\* True when the first n characters of s exist and are all in C: the
\* anchored match of [C]{n} (re.match needs no more than a prefix)
PrefixIn(s, C, n) == Len(s) >= n /\ \A i \in 1..n : Ch(s, i) \in C

(***************************************************************************)
(* urllib.quote / urllib.unquote.  The modelled alphabet is letters,       *)
(* digits and _ . - / : @ ? = & # % , and the space; the escapes decoded   *)
(* are those of the alphabet's reserved characters.                        *)
(***************************************************************************)
Reserved == {"#", "@", ":", "?", "=", "&", "%", ",", " "}

HexOf == [c \in Reserved |->
    CASE c = "#" -> "23" [] c = "@" -> "40" [] c = ":" -> "3A"
      [] c = "?" -> "3F" [] c = "=" -> "3D" [] c = "&" -> "26"
      [] c = "%" -> "25" [] c = "," -> "2C" [] OTHER -> "20"]

\* the character a two-digit hex code stands for, "" when it is none of the
\* alphabet's
CharOf(hex) ==
    LET C == {c \in Reserved : HexOf[c] = hex \/ Lower(HexOf[c]) = hex}
    IN  IF C = {} THEN "" ELSE CHOOSE c \in C : TRUE

\* urllib.unquote(s)
RECURSIVE unquote(_)
unquote(s) ==
    LET I == {i \in 1..(Len(s) - 2) :
                 Ch(s, i) = "%" /\ CharOf(SubSeq(s, i + 1, i + 2)) # ""}
    IN  IF I = {} THEN s
        ELSE Upto(s, MinOf(I) - 1)
             \o CharOf(SubSeq(s, MinOf(I) + 1, MinOf(I) + 2))
             \o unquote(From(s, MinOf(I) + 3))

\* urllib.quote(s), safe='/'
RECURSIVE quote(_)
quote(s) ==
    LET i == FirstIn(s, Reserved)
    IN  IF i = 0 THEN s
        ELSE Upto(s, i - 1) \o "%" \o HexOf[Ch(s, i)] \o quote(From(s, i + 1))

(***************************************************************************)
(* Utils.tidy_path on paths without backslashes: runs of '/' collapse to   *)
(* one (TIDY_NUX_PATH_RE) and a trailing run of slashes and blanks after   *)
(* a non-slash character is cut (TIDY_NUX_TRIM_RE).                        *)
(***************************************************************************)
RECURSIVE CollapseSlashes(_)
CollapseSlashes(s) ==
    LET I == {i \in 1..(Len(s) - 1) : Ch(s, i) = "/" /\ Ch(s, i + 1) = "/"}
    IN  IF I = {} THEN s
        ELSE Upto(s, MinOf(I) - 1) \o CollapseSlashes(From(s, MinOf(I) + 1))

tidy_path(path) ==
    LET p == CollapseSlashes(Strip(path))
        \* the leftmost non-slash character followed only by slashes/blanks
        I == {i \in 1..(Len(p) - 1) :
                 /\ Ch(p, i) # "/"
                 /\ \A j \in (i + 1)..Len(p) : Ch(p, j) \in WS \cup {"/"}}
    IN  IF I = {} THEN p ELSE Upto(p, MinOf(I))

(***************************************************************************)
(* urlparse.urlparse('http://' + host): [1] is the network location, up to *)
(* the first of / ? #, and [2] the path, up to the fragment's '#'.         *)
(***************************************************************************)
urlparse_netloc(host) ==
    LET i == FirstIn(host, {"/", "?", "#"})
    IN  IF i = 0 THEN host ELSE Upto(host, i - 1)

urlparse_path(host) ==
    LET i == FirstIn(host, {"/", "?", "#"})
        rest == IF i = 0 THEN "" ELSE From(host, i)
        f == FirstIn(rest, {"#", "?"})
    IN  IF f = 0 THEN rest ELSE Upto(rest, f - 1)

(***************************************************************************)
(* urlparse.parse_qsl(qs, keep_blank_values=True) followed by the dict()   *)
(* of parse_url: keys lowercased, a later pair replaces an earlier one.    *)
(***************************************************************************)
EmptyDict == [k \in {} |-> ""]

RECURSIVE QsdOf(_)
QsdOf(pairs) ==
    IF pairs = << >> THEN EmptyDict
    ELSE LET nv == pairs[Len(pairs)]
             e == FirstIn(nv, {"="})
             name == IF e = 0 THEN nv ELSE Upto(nv, e - 1)
             value == IF e = 0 THEN "" ELSE From(nv, e + 1)
             rest == QsdOf(Upto(pairs, Len(pairs) - 1))
         IN  IF nv = "" THEN rest
             ELSE (Strip(Lower(unquote(name))) :> Strip(unquote(value)))
                  @@ rest

parse_qsl(qsdata) == QsdOf(SplitRuns(qsdata, {"&"}))

\* dict.get(key, default)
Get(d, key, default) == IF key \in DOMAIN d THEN d[key] ELSE default

(***************************************************************************)
(* int(s) for a string: optional sign, then digits.                        *)
(***************************************************************************)
DigitVal == [c \in Digits |->
    CASE c = "0" -> 0 [] c = "1" -> 1 [] c = "2" -> 2 [] c = "3" -> 3
      [] c = "4" -> 4 [] c = "5" -> 5 [] c = "6" -> 6 [] c = "7" -> 7
      [] c = "8" -> 8 [] OTHER -> 9]

RECURSIVE DigitsVal(_)
DigitsVal(s) ==
    IF s = "" THEN 0 ELSE 10 * DigitsVal(Upto(s, Len(s) - 1)) + DigitVal[LastCh(s)]

IsInt(s) ==
    LET t == Strip(s)
        d == IF t # "" /\ Head(t) \in {"+", "-"} THEN Tail(t) ELSE t
    IN  d # "" /\ \A i \in 1..Len(d) : Ch(d, i) \in Digits

IntOf(s) ==
    LET t == Strip(s)
    IN  IF Head(t) = "-" THEN 0 - DigitsVal(Tail(t))
        ELSE IF Head(t) = "+" THEN DigitsVal(Tail(t))
        ELSE DigitsVal(t)

\* '%d' % n
RECURSIVE NatStr(_)
NatStr(n) ==
    LET d == CHOOSE c \in Digits : DigitVal[c] = n % 10
    IN  IF n < 10 THEN d ELSE NatStr(n \div 10) \o d

IntStr(n) == IF n < 0 THEN "-" \o NatStr(0 - n) ELSE NatStr(n)

(***************************************************************************)
(* ScriptBase.parse_url.                                                   *)
(***************************************************************************)
\* VALID_URL_RE = ^[\s]*([^:\s]+):[/\\]*([^?]+)(\?(.+))?[\s]*$
\* as a record [ok, g1, g2, g4]; g4 is NoneVal when the query group did
\* not take part in the match
NoMatch == [ok |-> FALSE, g1 |-> "", g2 |-> "", g4 |-> NoneVal]

\* ([^?]+)(\?(.+))? on what follows the slashes
UrlQuery(g1, body, q) ==
    IF body = "" \/ q = 1 \/ q = Len(body) THEN NoMatch
    ELSE [ok |-> TRUE, g1 |-> g1,
          g2 |-> IF q = 0 THEN body ELSE Upto(body, q - 1),
          g4 |-> IF q = 0 THEN NoneVal ELSE From(body, q + 1)]

\* [/\\]* gives its last slash back when nothing else is left for ([^?]+)
UrlBody(g1, rest, k) ==
    UrlQuery(g1,
             From(rest, IF (k > Len(rest) \/ Ch(rest, k) = "?") /\ k > 1
                        THEN k - 1 ELSE k),
             FirstIn(From(rest, IF (k > Len(rest) \/ Ch(rest, k) = "?")
                                   /\ k > 1
                                THEN k - 1 ELSE k), {"?"}))

\* ([^:\s]+): from the first character that is no blank
UrlSchema(s, c) ==
    IF c <= 1 \/ Ch(s, c) # ":" THEN NoMatch
    ELSE UrlBody(Upto(s, c - 1), From(s, c + 1),
                 FirstNotIn(From(s, c + 1), Slashes))

VALID_URL_RE(url) ==
    UrlSchema(LStrip(url, WS), FirstIn(LStrip(url, WS), {":"} \cup WS))

\* VALID_HOST_RE = ^[\s]*([^:/\s]+): group 1, "" when there is no match
VALID_HOST_RE(url) ==
    LET s == LStrip(url, WS)
        e == FirstIn(s, {":", "/"} \cup WS)
    IN  IF e = 0 THEN s ELSE Upto(s, e - 1)

\* VALID_QUERY_RE = ^(.*[/\\])([^/\\]*)$ on fullpath: <<path, query>>,
\* NoneVal for an empty group or when there is no match
VALID_QUERY_RE(fullpath) ==
    LET i == LastIn(fullpath, Slashes)
        p == Upto(fullpath, i)
        q == From(fullpath, i + 1)
    IN  IF i = 0 THEN <<NoneVal, NoneVal>>
        ELSE <<IF p = "" THEN NoneVal ELSE p, IF q = "" THEN NoneVal ELSE q>>

\* the port of a result: None, an integer, or the empty string that
\* 'host:' leaves behind
PortNone == [t |-> "none", v |-> 0]
PortInt(n) == [t |-> "int", v |-> n]
PortEmpty == [t |-> "str", v |-> 0]

ParseNone == [ok |-> FALSE]

\* result as parse_url starts with it
DefaultResult ==
    [ok |-> TRUE, user |-> NoneVal, password |-> NoneVal, port |-> PortNone,
     host |-> NoneVal, fullpath |-> NoneVal, path |-> NoneVal,
     query |-> NoneVal, schema |-> NoneVal, url |-> NoneVal,
     qsd |-> EmptyDict]

\* Re-assemble cleaned up version of the url
ReassembleUrl(result) ==
    [result EXCEPT !.url =
        result.schema \o "://"
        \o (IF result.user = NoneVal THEN ""
            ELSE IF result.password = NoneVal THEN result.user \o "@"
            ELSE result.user \o ":" \o result.password \o "@")
        \o result.host
        \o (IF result.port.t = "int" THEN ":" \o IntStr(result.port.v)
            ELSE "")
        \o (IF result.fullpath = NoneVal THEN "" ELSE result.fullpath)]

\* ConvertPort without the test for zero
ConvertPort_keepZero(result, port) ==
    IF port = "" THEN ReassembleUrl([result EXCEPT !.port = PortEmpty])
    ELSE IF ~IsInt(port) THEN ParseNone
    ELSE ReassembleUrl([result EXCEPT !.port = PortInt(IntOf(port))])

\* if result['port']: int(result['port']), 0 becomes None; an invalid port
\* makes parse_url return None
ConvertPort(result, port) ==
    IF port = "" THEN ReassembleUrl([result EXCEPT !.port = PortEmpty])
    ELSE IF ~IsInt(port) THEN ParseNone
    ELSE IF IntOf(port) = 0 THEN ReassembleUrl(result)
    ELSE ReassembleUrl([result EXCEPT !.port = PortInt(IntOf(port))])

\* (host, port) = re.split('[\s:]+', host)[:2]
SplitPort(result, hp) ==
    IF Len(hp) >= 2 THEN ConvertPort([result EXCEPT !.host = hp[1]], hp[2])
    ELSE ReassembleUrl(result)

\* the port of the host the credentials have been taken from
ParsePort(result) == SplitPort(result, SplitRuns(result.host, WS \cup {":"}))

\* QsdAuth with the query string's credentials taking the place of those
\* of the authority
QsdAuth_override(result, qsd_auth) ==
    IF ~qsd_auth THEN result
    ELSE [result EXCEPT
            !.user = IF Get(result.qsd, "user", "") # ""
                     THEN unquote(result.qsd["user"]) ELSE @,
            !.password = IF Get(result.qsd, "pass", "") # ""
                         THEN unquote(result.qsd["pass"]) ELSE @]

\* Allow people to place a user= inline in the query string
QsdAuth(result, qsd_auth) ==
    IF ~qsd_auth THEN result
    ELSE [result EXCEPT
            !.user = IF @ = NoneVal /\ Get(result.qsd, "user", "") # ""
                     THEN unquote(result.qsd["user"]) ELSE @,
            !.password = IF @ = NoneVal /\ Get(result.qsd, "pass", "") # ""
                         THEN unquote(result.qsd["pass"]) ELSE @]

\* (user, password) = re.split('[:\s]+', user)[:2]
SplitPassword(result, cp) ==
    IF Len(cp) >= 2 THEN [result EXCEPT !.user = cp[1], !.password = cp[2]]
    ELSE result

\* (user, host) = re.split('[\s@]+', host)[:2], then the password, the
\* query string's credentials and the port
SplitUser(result, up, qsd_auth) ==
    ParsePort(QsdAuth(
        IF Len(up) >= 2
        THEN SplitPassword([result EXCEPT !.user = up[1], !.host = up[2]],
                           SplitRuns(up[1], WS \cup {":"}))
        ELSE result,
        qsd_auth))

\* Using full path, extract query from path
WithPath(result, fullpath) ==
    IF fullpath = "" THEN result
    ELSE [result EXCEPT !.fullpath = fullpath,
                        !.path = VALID_QUERY_RE(fullpath)[1],
                        !.query = VALID_QUERY_RE(fullpath)[2]]

\* Handle trailing slashes removed by tidy_path
TrailingSlash(url, fullpath) ==
    IF fullpath # "" /\ LastCh(fullpath) \notin Slashes
       /\ LastCh(url) \in Slashes
    THEN fullpath \o LastCh(Strip(url)) ELSE fullpath

\* Now do a proper extraction of data: urlparse('http://%s' % host)
ParseHost(url, qsd_auth, schema, host, qsdata) ==
    IF host = "" THEN ParseNone
    ELSE SplitUser(
             WithPath([DefaultResult EXCEPT
                          !.schema = schema,
                          !.host = Strip(urlparse_netloc(host)),
                          !.qsd = IF qsdata # "" THEN parse_qsl(qsdata)
                                  ELSE EmptyDict],
                      TrailingSlash(url, quote(unquote(tidy_path(
                          Strip(urlparse_path(host))))))),
             SplitRuns(Strip(urlparse_netloc(host)), WS \cup {"@"}),
             qsd_auth)

\* ParseMatch taking the schema as it is written
ParseMatch_asWritten(url, default_schema, qsd_auth, match, hostmatch) ==
    IF ~match.ok /\ hostmatch = "" THEN ParseNone
    ELSE ParseHost(url, qsd_auth,
                   IF match.ok /\ Strip(match.g1) # ""
                   THEN Strip(match.g1) ELSE default_schema,
                   Strip(IF match.ok THEN match.g2 ELSE hostmatch),
                   IF match.ok /\ match.g4 # NoneVal THEN Strip(match.g4)
                   ELSE "")

\* the two ways a url is matched
ParseMatch(url, default_schema, qsd_auth, match, hostmatch) ==
    IF ~match.ok /\ hostmatch = "" THEN ParseNone
    ELSE ParseHost(url, qsd_auth,
                   IF match.ok /\ Strip(Lower(match.g1)) # ""
                   THEN Strip(Lower(match.g1)) ELSE default_schema,
                   Strip(IF match.ok THEN match.g2 ELSE hostmatch),
                   IF match.ok /\ match.g4 # NoneVal THEN Strip(match.g4)
                   ELSE "")

parse_url(url, default_schema, qsd_auth) ==
    ParseMatch(url, default_schema, qsd_auth,
               VALID_URL_RE(url), VALID_HOST_RE(url))

(***************************************************************************)
(* ScriptBase.parse_bool: arg is a string, or NoneVal for Python's None.   *)
(***************************************************************************)
parse_bool(arg, default) ==
    IF arg = NoneVal THEN FALSE
    ELSE LET a == Upto(Lower(arg), 2)
         IN  IF a \in {"de", "di", "ne", "f", "n", "no", "of", "0", "fa"}
             THEN FALSE
             ELSE IF a \in {"en", "al", "t", "y", "ye", "on", "1", "tr"}
             THEN TRUE
             ELSE default

(***************************************************************************)
(* Notify.py: the scheme registry.                                         *)
(***************************************************************************)
NOTIFY_TELEGRAM_SCHEMA == "tgram"

SCHEMA_MAP ==
    [boxcar |-> "NotifyBoxcar", boxcars |-> "NotifyBoxcar",
     faast |-> "NotifyFaast",
     kodi |-> "NotifyXBMC", kodis |-> "NotifyXBMC",
     mmost |-> "NotifyMatterMost", mmosts |-> "NotifyMatterMost",
     growl |-> "NotifyGrowl", prowl |-> "NotifyProwl",
     toasty |-> "NotifyToasty",
     mailto |-> "NotifyEmail", mailtos |-> "NotifyEmail",
     nma |-> "NotifyMyAndroid",
     xbmc |-> "NotifyXBMC", xbmcs |-> "NotifyXBMC",
     palot |-> "NotifyPushalot", pbul |-> "NotifyPushBullet",
     pover |-> "NotifyPushover",
     json |-> "NotifyJSON", jsons |-> "NotifyJSON",
     xml |-> "NotifyXML", xmls |-> "NotifyXML",
     slack |-> "NotifySlack", join |-> "NotifyJoin",
     tgram |-> "NotifyTelegram",
     pjet |-> "NotifyPushjet", pjets |-> "NotifyPushjet"]

\* Used to break a path list into parts
PATHSPLIT_LIST_DELIM == {" ", "\t", "\r", "\n", ",", "\\", "/"}

(***************************************************************************)
(* The Telegram pattern of NotifyScript.notify, matched from the start of  *)
(* the string, ignoring case: the protocol tgram://, an optional bot, an   *)
(* optional prefix word[:word]@, the digits btoken_a, one or more colons   *)
(* and the remaining characters.                                           *)
(***************************************************************************)
WordCh == AlNum \cup {"_", "-"}

\* one way of matching: with or without the optional (bot) and prefix
TgramTry(s, useBot, usePrefix) ==
    LET plen == Len(NOTIFY_TELEGRAM_SCHEMA) + 3
        protocol == Upto(s, plen)
        r0 == From(s, plen + 1)
        r1 == IF useBot THEN From(r0, 4) ELSE r0
        \* ([a-z0-9_-]+)(:[a-z0-9_-]+)?@
        w1 == FirstNotIn(r1, WordCh) - 1
        a1 == From(r1, w1 + 1)
        w2 == IF a1 # "" /\ Head(a1) = ":"
              THEN FirstNotIn(Tail(a1), WordCh) - 1 ELSE 0
        plen2 == IF w2 >= 1 THEN w1 + 1 + w2 ELSE w1
        prefixOk == w1 >= 1 /\ Ch(r1, plen2 + 1) = "@"
        prefix == IF usePrefix THEN Upto(r1, plen2 + 1) ELSE ""
        r2 == IF usePrefix THEN From(r1, plen2 + 2) ELSE r1
        \* [0-9]+ then :+
        d == FirstNotIn(r2, Digits) - 1
        r3 == From(r2, d + 1)
        c == FirstNotIn(r3, {":"}) - 1
    IN  [ok |-> /\ Lower(protocol) = NOTIFY_TELEGRAM_SCHEMA \o "://"
                /\ (useBot => Lower(Upto(r0, 3)) = "bot")
                /\ (usePrefix => prefixOk)
                /\ d >= 1 /\ c >= 1,
         protocol |-> protocol, prefix |-> prefix,
         btoken_a |-> Upto(r2, d), remaining |-> From(r3, c + 1)]

\* the match the regular expression engine finds: it prefers to take the
\* optional groups and gives them back in turn
FirstMatch(tries) ==
    IF \E i \in 1..Len(tries) : tries[i].ok
    THEN tries[MinOf({i \in 1..Len(tries) : tries[i].ok})]
    ELSE tries[Len(tries)]

tgram_match(s) ==
    FirstMatch(<<TgramTry(s, TRUE, TRUE), TgramTry(s, TRUE, FALSE),
                 TgramTry(s, FALSE, TRUE), TgramTry(s, FALSE, FALSE)>>)

\* the corrected URL: '%s%s%s/%s' % (protocol, prefix, btoken_a, remaining)
tgram_rewrite(m) == m.protocol \o m.prefix \o m.btoken_a \o "/" \o m.remaining

(***************************************************************************)
(* NotifyScript.notify, lines 471-513: decomposition of one raw target.    *)
(* Returns the parsed server with the history of how it was obtained:      *)
(* calls (number of parse_url calls) and rewritten (the string the retry   *)
(* parsed, NoneVal if none).                                               *)
(***************************************************************************)
\* Retry without the test of the first result: the rewrite is applied to
\* every string the pattern matches
Retry_anyMatch(primary, m) ==
    IF m.ok
    THEN [server |-> parse_url(tgram_rewrite(m), "unknown", TRUE),
          calls |-> 2, rewritten |-> tgram_rewrite(m)]
    ELSE [server |-> primary, calls |-> 1, rewritten |-> NoneVal]

\* lines 486-509: the second try, when the first gave None and the
\* Telegram pattern matches
Retry(primary, m) ==
    IF ~primary.ok /\ m.ok
    THEN [server |-> parse_url(tgram_rewrite(m), "unknown", TRUE),
          calls |-> 2, rewritten |-> tgram_rewrite(m)]
    ELSE [server |-> primary, calls |-> 1, rewritten |-> NoneVal]

\* swap hash (#) tag values with their html version, then parse
decompose(raw) ==
    Retry(parse_url(Replace(raw, "/#", "/%23"), "unknown", TRUE),
          tgram_match(Replace(raw, "/#", "/%23")))

(***************************************************************************)
(* NotifyScript.notify, lines 524-956: the arguments of the notifier.      *)
(* A dictionary is a function from its keys; later items win.              *)
(***************************************************************************)
\* filter(bool, PATHSPLIT_LIST_DELIM.split(unquote(fullpath).lstrip('/')))
PathTokens(fullpath) ==
    NonEmpty(SplitRuns(LStrip(unquote(fullpath), {"/"}), PATHSPLIT_LIST_DELIM))

\* Limit results to just the first 2 line
ShortenBody(body) ==
    LET lines == SplitRuns(body, {"\r", "\n"})
        first == Strip(StripSet(lines[1], {"#"}))
    IN  Join(Upto(<<first>> \o Tail(lines), 2), "\r\n")

\* notify_args with the secure flag raised for the schema https alone
notify_args_httpsOnly(server, include_image, image_url, image_path) ==
    [user |-> server.user, password |-> server.password,
     port |-> server.port, host |-> server.host,
     fullpath |-> server.fullpath, path |-> server.path,
     query |-> server.query, schema |-> server.schema,
     url |-> server.url, qsd |-> server.qsd,
     include_image |-> include_image,
     secure |-> (server.schema = "https"),
     verify |-> IF "verify" \in DOMAIN server.qsd
                THEN parse_bool(server.qsd["verify"], FALSE) ELSE TRUE,
     override_image_url |-> image_url,
     override_image_path |-> image_path]

\* lines 524-536
notify_args(server, include_image, image_url, image_path) ==
    [user |-> server.user, password |-> server.password,
     port |-> server.port, host |-> server.host,
     fullpath |-> server.fullpath, path |-> server.path,
     query |-> server.query, schema |-> server.schema,
     url |-> server.url, qsd |-> server.qsd,
     include_image |-> include_image,
     secure |-> (LastCh(server.schema) = "s"),
     \* Support SSL Certificate 'verify' keyword
     verify |-> IF "verify" \in DOMAIN server.qsd
                THEN parse_bool(server.qsd["verify"], FALSE) ELSE TRUE,
     override_image_url |-> image_url,
     override_image_path |-> image_path]

\* pnotify.NotifyBase.IS_EMAIL_RE.match(s), ignoring case: a user id of
\* letters, digits and punctuation with single dots inside, then @; the
\* domain after it is an optional group, so a user id and @ at the start of
\* s are a match.  The grave accent of the pattern has no string to stand
\* for it here and is left out.
NotifyBase_IS_EMAIL_RE(s) ==
    LET at == FirstIn(s, {"@"})
        userid == Upto(s, at - 1)
        UserCh == AlNum \cup {"!", "#", "$", "%", "&", "'", "*", "+", "/",
                              "=", "?", "^", "_", "{", "|", "}", "~", "-"}
    IN  /\ at >= 2
        /\ \A i \in 1..Len(userid) : Ch(userid, i) \in UserCh \cup {"."}
        /\ Ch(userid, 1) # "."
        /\ LastCh(userid) # "."
        /\ \A i \in 1..(Len(userid) - 1) :
               ~(Ch(userid, i) = "." /\ Ch(userid, i + 1) = ".")

\* '%s@%s' % (re.split('[\s@]+', a)[0], re.split('[\s@]+', b)[-1])
BuildAddress(a, b) ==
    SplitRuns(a, WS \cup {"@"})[1] \o "@"
    \o SplitRuns(b, WS \cup {"@"})[Len(SplitRuns(b, WS \cup {"@"}))]

\* the item of notify_args a non-empty query parameter adds
QsdItem(qsd, param, key) ==
    IF Get(qsd, param, "") # "" THEN key :> unquote(qsd[param])
    ELSE EmptyDict

\* lines 562-679, the Email branch, from to_addr and from_addr on: the
\* items it adds come after those of base in notify_args, so they win in
\* dict(notify_args).  exc is "continue" where the branch gives the target
\* up.
EmailItems(server, body, base, to_addr, from_addr) ==
    IF ~NotifyBase_IS_EMAIL_RE(to_addr) /\ server.user \notin {NoneVal, ""}
       /\ ~NotifyBase_IS_EMAIL_RE(BuildAddress(server.user, to_addr))
    THEN [exc |-> "continue", args |-> base, body |-> body]
    ELSE IF from_addr = NoneVal
    THEN [exc |-> "continue", args |-> base, body |-> body]
    ELSE [exc |-> NoneVal,
          args |-> ("to" :> to_addr
                    @@ "from" :> from_addr
                    @@ "smtp_host" :> (IF Get(server.qsd, "smtp", "") # ""
                                       THEN unquote(server.qsd["smtp"])
                                       ELSE "")
                    @@ "notify_format" :>
                         (IF Ch(Lower(unquote(Get(server.qsd, "format", ""))),
                                1) = "t"
                          THEN "text" ELSE "html"))
                   @@ QsdItem(server.qsd, "pass", "password")
                   @@ QsdItem(server.qsd, "user", "user")
                   @@ QsdItem(server.qsd, "timeout", "timeout")
                   @@ QsdItem(server.qsd, "name", "name")
                   @@ base,
          body |-> body]

\* lines 604-622: the from address, NoneVal where none can be made
FromAddress(server, to_addr) ==
    IF Get(server.qsd, "from", "") = "" THEN to_addr
    ELSE IF NotifyBase_IS_EMAIL_RE(server.qsd["from"]) THEN server.qsd["from"]
    ELSE IF NotifyBase_IS_EMAIL_RE(BuildAddress(server.qsd["from"], to_addr))
    THEN BuildAddress(server.qsd["from"], to_addr)
    ELSE NoneVal

\* lines 579-602: the to address made of the host, and of the user of the
\* url where the host is no address
ToAddress(server, host_addr) ==
    IF ~NotifyBase_IS_EMAIL_RE(host_addr) /\ server.user \notin {NoneVal, ""}
    THEN BuildAddress(server.user, host_addr)
    ELSE host_addr

\* lines 562-679: Email Notification Support
extract_email(server, body, base) ==
    LET parts == IF server.host = NoneVal THEN << >>
                 ELSE NonEmpty(SplitRuns(unquote(LStrip(server.host, {"/"})),
                                         PATHSPLIT_LIST_DELIM))
        host_addr == IF parts = << >> THEN "" ELSE parts[1]
    IN  EmailItems(server, body, base, ToAddress(server, host_addr),
                   FromAddress(server, ToAddress(server, host_addr)))

\* The branch of the schema chain: [exc, args, body].  exc names the
\* exception that leaves the branch, NoneVal when there is none.  The
\* branches of the backends whose classes are outside the modelled sources
\* (Boxcar, NMA, Join, MatterMost, Prowl, Pushalot, PushBullet) are not
\* taken by any modelled target.
extract(server, body, base) ==
    LET s == server.schema
        nopath == server.fullpath = NoneVal
        toks == IF nopath THEN << >> ELSE PathTokens(server.fullpath)
        done(args, b) == [exc |-> NoneVal, args |-> args, body |-> b]
    IN  CASE s = "faast" ->
               done(("authtoken" :> server.host) @@ base, body)
          [] s \in {"mailto", "mailtos"} ->
               extract_email(server, body, base)
          [] s = "growl" ->
               LET v == Get(server.qsd, "version", "")
                   v0 == SplitRuns(Strip(unquote(v)), {"."})[1]
                   version == IF v # "" /\ IsInt(v0) THEN IntOf(v0) ELSE 0
                   swapped == [base EXCEPT !.user = NoneVal,
                                           !.password = server.user]
               IN  done(IF version # 0
                        THEN ("version" :> version) @@ swapped
                        ELSE swapped,
                        ShortenBody(body))
          [] s = NOTIFY_TELEGRAM_SCHEMA ->
               \* the IndexError and AttributeError are caught: None is
               \* passed on
               done(("bot_token" :> (IF toks = << >> THEN NoneVal
                                     ELSE server.host \o ":" \o toks[1])
                     @@ "chat_ids" :> (IF nopath THEN NoneVal
                                       ELSE Join(Tail(toks), ",")))
                    @@ base, body)
          [] s = "slack" ->
               \* token_b, token_c = tokens[0:2] raises ValueError when
               \* fewer than two tokens are there; only AttributeError
               \* (no path at all) and IndexError are caught
               IF ~nopath /\ Len(toks) < 2
               THEN [exc |-> "ValueError", args |-> base, body |-> body]
               ELSE done(("token_a" :> server.host
                          @@ "token_b" :> (IF nopath THEN NoneVal ELSE toks[1])
                          @@ "token_c" :> (IF nopath THEN NoneVal ELSE toks[2])
                          @@ "channels" :> (IF nopath THEN NoneVal
                                            ELSE Join(SubSeq(toks, 3, Len(toks)),
                                                      "#")))
                         @@ base, body)
          [] s = "pover" ->
               done(("token" :> server.host
                     @@ "devices" :> (IF nopath THEN ""
                                      ELSE unquote(server.fullpath)))
                    @@ base, body)
          [] s = "toasty" ->
               done(("devices" :> (server.host \o "/" \o
                                   (IF nopath THEN ""
                                    ELSE unquote(server.fullpath))))
                    @@ base, body)
          [] s \in {"xbmc", "xbmcs", "kodi", "kodis"} ->
               done(base, ShortenBody(body))
          [] OTHER -> done(base, body)

(***************************************************************************)
(* pnotify: constants of NotifyBase and of the backends.                   *)
(***************************************************************************)
NOTIFY_FORMATS == {"text", "html"}
NOTIFY_IMAGE_SIZES == {"72x72", "128x128", "256x256"}
\* the keys of HTTP_ERROR_MAP
HTTP_ERROR_MAP == {400, 401, 404, 405, 500, 503}
\* the keys of PUSHOVER_HTTP_ERROR_MAP
PUSHOVER_HTTP_ERROR_MAP == HTTP_ERROR_MAP \cup {401}
PUSHOVER_SEND_TO_ALL == "ALL_DEVICES"
XBMC_PORT == 8080
GROWL_UDP_PORT == 23053
\* Used to break path apart into list of devices / chat identifiers
DEVICE_LIST_DELIM == {" ", "\t", "\r", "\n", ",", "\\", "/"}
DEVICES_LIST_DELIM == {" ", "\t", "\r", "\n", ",", "\\", "/"}
CHAT_ID_LIST_DELIM == {" ", "\t", "\r", "\n", ",", "#", "\\", "/"}

\* VALIDATE_TOKEN, VALIDATE_USERGROUP = [A-Za-z0-9]{30}, matched as a prefix
VALIDATE_TOKEN(s) == PrefixIn(s, AlNum, 30)
VALIDATE_USERGROUP(s) == PrefixIn(s, AlNum, 30)
\* VALIDATE_DEVICE = [A-Za-z0-9_]{1,25}, matched as a prefix
VALIDATE_DEVICE(s) == PrefixIn(s, AlNum \cup {"_"}, 1)

\* VALIDATE_BOT_TOKEN = (bot)?(?P<key>[0-9]+:[A-Za-z0-9_-]{32,34}), ignoring
\* case, matched as a prefix: the group key, "" when there is no match
VALIDATE_BOT_TOKEN(s) ==
    LET r == IF Lower(Upto(s, 3)) = "bot" THEN From(s, 4) ELSE s
        d == FirstNotIn(r, Digits) - 1
        t == From(r, d + 2)
        n == FirstNotIn(t, WordCh) - 1
    IN  IF d >= 1 /\ Ch(r, d + 1) = ":" /\ n >= 32
        THEN Upto(r, d + 1) \o Upto(t, IF n > 34 THEN 34 ELSE n)
        ELSE ""

\* IS_CHAT_ID_RE = (@*(?P<idno>[0-9]{1,10})|(?P<name>[a-z_-][a-z0-9_-]*)),
\* ignoring case, matched as a prefix: [ok, idno, name]
IS_CHAT_ID_RE(s) ==
    LET a == LStrip(s, {"@"})
        d == FirstNotIn(a, Digits) - 1
        n == FirstNotIn(s, WordCh) - 1
    IN  IF d >= 1
        THEN [ok |-> TRUE, idno |-> Upto(a, IF d > 10 THEN 10 ELSE d),
              name |-> NoneVal]
        ELSE IF n >= 1 /\ Head(s) \notin Digits
        THEN [ok |-> TRUE, idno |-> NoneVal, name |-> Upto(s, n)]
        ELSE [ok |-> FALSE, idno |-> NoneVal, name |-> NoneVal]

(***************************************************************************)
(* NotifyBase.__init__ and the constructors of the backends.  The result   *)
(* is [exc, nobj]: exc names the exception raised, NoneVal when the        *)
(* object was built.                                                       *)
(***************************************************************************)
NotifyBase_init(title_maxlen, body_maxlen, notify_format, image_size, kwargs) ==
    IF Lower(notify_format) \notin NOTIFY_FORMATS
       \/ (image_size # NoneVal /\ image_size \notin NOTIFY_IMAGE_SIZES)
    THEN [exc |-> "TypeError", nobj |-> [class |-> NoneVal]]
    ELSE [exc |-> NoneVal,
          nobj |-> [class |-> NoneVal,
                    notify_format |-> Lower(notify_format),
                    title_maxlen |-> title_maxlen,
                    body_maxlen |-> body_maxlen,
                    image_size |-> image_size,
                    include_image |-> kwargs.include_image,
                    secure |-> kwargs.secure,
                    host |-> kwargs.host,
                    port |-> kwargs.port,
                    user |-> kwargs.user,
                    password |-> kwargs.password,
                    override_image_url |-> kwargs.override_image_url,
                    \* override_image_path is a named parameter of
                    \* __init__, so kwargs.get() never finds it
                    override_image_path |-> NoneVal]]

Built(b, class, extra) ==
    [exc |-> NoneVal, nobj |-> extra @@ [b.nobj EXCEPT !.class = class]]

Refused(exc) == [exc |-> exc, nobj |-> [class |-> NoneVal]]

NotifyPushover_init(kwargs) ==
    LET b == NotifyBase_init(250, 512, "text", NoneVal, kwargs)
        devs == NonEmpty(SplitRuns(kwargs.devices, DEVICE_LIST_DELIM))
    IN  IF b.exc # NoneVal THEN b
        ELSE IF ~VALIDATE_TOKEN(Strip(kwargs.token)) THEN Refused("TypeError")
        ELSE IF kwargs.user \in {NoneVal, ""} THEN Refused("TypeError")
        ELSE IF ~VALIDATE_USERGROUP(kwargs.user) THEN Refused("TypeError")
        ELSE Built(b, "NotifyPushover",
                   [token |-> Strip(kwargs.token),
                    devices |-> IF devs = << >>
                                THEN <<PUSHOVER_SEND_TO_ALL>> ELSE devs])

NotifyTelegram_init(kwargs) ==
    LET b == NotifyBase_init(250, 4096, "text", NoneVal, kwargs)
        key == VALIDATE_BOT_TOKEN(Strip(kwargs.bot_token))
        ids == IF kwargs.chat_ids = NoneVal THEN << >>
               ELSE NonEmpty(SplitRuns(kwargs.chat_ids, CHAT_ID_LIST_DELIM))
        \* Treat this as a channel too
        all == IF kwargs.user \in {NoneVal, ""} THEN ids
               ELSE Append(ids, kwargs.user)
    IN  IF b.exc # NoneVal THEN b
        \* bot_token.strip() on None
        ELSE IF kwargs.bot_token = NoneVal THEN Refused("AttributeError")
        ELSE IF key = "" THEN Refused("TypeError")
        ELSE IF all = << >> THEN Refused("TypeError")
        ELSE Built(b, "NotifyTelegram", [bot_token |-> key, chat_ids |-> all])

NotifyToasty_init(kwargs) ==
    LET b == NotifyBase_init(250, 32768, "text", NoneVal, kwargs)
    IN  IF b.exc # NoneVal THEN b
        ELSE IF kwargs.user \in {NoneVal, ""} THEN Refused("TypeError")
        ELSE Built(b, "NotifyToasty",
                   [devices |-> NonEmpty(SplitRuns(kwargs.devices,
                                                   DEVICES_LIST_DELIM))])

NotifyFaast_init(kwargs) ==
    LET b == NotifyBase_init(250, 32768, "text", "72x72", kwargs)
    IN  IF b.exc # NoneVal THEN b
        ELSE Built(b, "NotifyFaast", [authtoken |-> kwargs.authtoken])

NotifyXBMC_init(kwargs) ==
    LET b == NotifyBase_init(250, 32768, "text", "128x128", kwargs)
    IN  IF b.exc # NoneVal THEN b
        ELSE Built([b EXCEPT !.nobj.port =
                        IF @.t = "int" THEN @ ELSE PortInt(XBMC_PORT)],
                   "NotifyXBMC",
                   [schema |-> IF kwargs.secure THEN "https" ELSE "http"])

NotifyPushjet_init(kwargs) ==
    LET b == NotifyBase_init(250, 32768, "text", "72x72", kwargs)
    IN  IF b.exc # NoneVal THEN b ELSE Built(b, "NotifyPushjet", << >>)

(***************************************************************************)
(* The network.  An endpoint answers every request it gets in the same     *)
(* way; what it answers is told by the name of the host, device or chat    *)
(* the request is for: the HTTP status, 0 for a connection error.          *)
(***************************************************************************)
http_status(key) ==
    CASE key \in {"e400", "@e400"} -> 400
      [] key \in {"e403", "@e403", "j403", "@j403"} -> 403
      [] key \in {"down", "@down"} -> 0
      [] OTHER -> 200

\* whether the JSON of an error answer carries a 'description'
error_description(key) == key \in {"j403", "@j403"}

NotifyGrowl_init(kwargs) ==
    LET b == NotifyBase_init(250, 32768, "text", "128x128", kwargs)
    IN  IF b.exc # NoneVal THEN b
        ELSE Built([b EXCEPT !.nobj.port =
                        IF @.t = "int" THEN @ ELSE PortInt(GROWL_UDP_PORT)],
                   "NotifyGrowl",
                   \* self.growl.register(): GrowlNetworkError is caught
                   [is_registered |-> http_status(kwargs.host) # 0])

\* SCHEMA_MAP[server['schema']](**dict(notify_args)) for the classes of
\* the modelled sources
ModelledClasses == {"NotifyPushover", "NotifyTelegram", "NotifyToasty",
                    "NotifyFaast", "NotifyXBMC", "NotifyGrowl",
                    "NotifyPushjet"}

construct(class, kwargs) ==
    CASE class = "NotifyPushover" -> NotifyPushover_init(kwargs)
      [] class = "NotifyTelegram" -> NotifyTelegram_init(kwargs)
      [] class = "NotifyToasty" -> NotifyToasty_init(kwargs)
      [] class = "NotifyFaast" -> NotifyFaast_init(kwargs)
      [] class = "NotifyXBMC" -> NotifyXBMC_init(kwargs)
      [] class = "NotifyGrowl" -> NotifyGrowl_init(kwargs)
      [] class = "NotifyPushjet" -> NotifyPushjet_init(kwargs)

(***************************************************************************)
(* NotifyBase.notify, lines 344-372: what _notify is called with.          *)
(***************************************************************************)
\* markdown.markdown(body) for a body that is one paragraph of plain words
markdown(body) == IF body = "" THEN "" ELSE "<p>" \o body \o "</p>"

to_html(nobj, body) == <<markdown(body)>>

NotifyBase_title(nobj, title) ==
    IF title # "" THEN Upto(title, nobj.title_maxlen) ELSE title

NotifyBase_bodies(nobj, body) ==
    IF nobj.notify_format = "html" THEN to_html(nobj, body)
    ELSE <<Upto(body, nobj.body_maxlen)>>

(***************************************************************************)
(* _notify of the backends.  A fan-out backend (Pushover, Telegram,        *)
(* Toasty) walks its list of recipients; FanoutIter is one pass of its     *)
(* while loop: [devices, has_error, events, exc].  An event is             *)
(* <<kind, recipient>>, kind one of send, skip and throttle, recipient the *)
(* entry of the list the pass took.                                        *)
(***************************************************************************)
FanoutClasses == {"NotifyPushover", "NotifyTelegram", "NotifyToasty"}

\* the recipients _notify starts from: list(self.devices)
FanoutList(nobj) ==
    IF nobj.class = "NotifyTelegram" THEN nobj.chat_ids ELSE nobj.devices

\* what one request does to the pass: the status is not 200 and the
\* message of HTTP_ERROR_MAP[r.status_code] is looked up under
\* "except IndexError", which does not catch the KeyError of a dict
PostOutcome(status, described, errorMap, has_error) ==
    IF status = 200 THEN [has_error |-> has_error, exc |-> NoneVal]
    ELSE IF status = 0 THEN [has_error |-> TRUE, exc |-> NoneVal]
    ELSE IF described \/ status \in errorMap
    THEN [has_error |-> TRUE, exc |-> NoneVal]
    ELSE [has_error |-> has_error, exc |-> "KeyError"]

\* FanoutIter taking the recipients from the end of the list: pop()
FanoutIter_pop(nobj, devices, has_error) ==
    LET device == devices[Len(devices)]
        rest == SubSeq(devices, 1, Len(devices) - 1)
        m == IS_CHAT_ID_RE(device)
        chat_id == IF m.name # NoneVal THEN "@" \o m.name ELSE m.idno
        invalid == CASE nobj.class = "NotifyPushover" ->
                            device # PUSHOVER_SEND_TO_ALL
                            /\ ~VALIDATE_DEVICE(device)
                     [] nobj.class = "NotifyTelegram" -> ~m.ok
                     [] OTHER -> FALSE
        to == IF nobj.class = "NotifyTelegram" THEN chat_id ELSE device
        out == PostOutcome(http_status(to),
                           nobj.class = "NotifyTelegram"
                           /\ error_description(to),
                           IF nobj.class = "NotifyPushover"
                           THEN PUSHOVER_HTTP_ERROR_MAP ELSE HTTP_ERROR_MAP,
                           has_error)
    IN  IF invalid
        THEN [devices |-> rest,
              \* only Pushover counts an invalid device as an error
              has_error |-> has_error \/ nobj.class = "NotifyPushover",
              events |-> <<<<"skip", device>>>>, exc |-> NoneVal]
        ELSE IF out.exc # NoneVal
        THEN [devices |-> rest, has_error |-> has_error,
              events |-> <<<<"send", device>>>>, exc |-> out.exc]
        ELSE [devices |-> rest, has_error |-> out.has_error,
              \* Prevent thrashing requests
              events |-> IF rest # << >>
                         THEN <<<<"send", device>>, <<"throttle", "">>>>
                         ELSE <<<<"send", device>>>>,
              exc |-> NoneVal]

\* devices.pop(0), the validation of the recipient, the request, throttle
FanoutIter(nobj, devices, has_error) ==
    LET device == Head(devices)
        rest == Tail(devices)
        m == IS_CHAT_ID_RE(device)
        chat_id == IF m.name # NoneVal THEN "@" \o m.name ELSE m.idno
        invalid == CASE nobj.class = "NotifyPushover" ->
                            device # PUSHOVER_SEND_TO_ALL
                            /\ ~VALIDATE_DEVICE(device)
                     [] nobj.class = "NotifyTelegram" -> ~m.ok
                     [] OTHER -> FALSE
        to == IF nobj.class = "NotifyTelegram" THEN chat_id ELSE device
        out == PostOutcome(http_status(to),
                           nobj.class = "NotifyTelegram"
                           /\ error_description(to),
                           IF nobj.class = "NotifyPushover"
                           THEN PUSHOVER_HTTP_ERROR_MAP ELSE HTTP_ERROR_MAP,
                           has_error)
    IN  IF invalid
        THEN [devices |-> rest,
              \* only Pushover counts an invalid device as an error
              has_error |-> has_error \/ nobj.class = "NotifyPushover",
              events |-> <<<<"skip", device>>>>, exc |-> NoneVal]
        ELSE IF out.exc # NoneVal
        THEN [devices |-> rest, has_error |-> has_error,
              events |-> <<<<"send", device>>>>, exc |-> out.exc]
        ELSE [devices |-> rest, has_error |-> out.has_error,
              \* Prevent thrashing requests
              events |-> IF rest # << >>
                         THEN <<<<"send", device>>, <<"throttle", "">>>>
                         ELSE <<<<"send", device>>>>,
              exc |-> NoneVal]

\* _notify of a backend with one request: [ret, events, exc]; ret is what
\* _notify returns, "True", "False" or "None"
SingleSend(nobj) ==
    LET st == http_status(nobj.host)
        sent == <<<<"send", nobj.host>>>>
    IN  CASE nobj.class = "NotifyFaast" ->
               LET o == PostOutcome(http_status(nobj.authtoken), FALSE,
                                    HTTP_ERROR_MAP, FALSE)
               IN  [ret |-> IF o.has_error THEN "False" ELSE "True",
                    events |-> <<<<"send", nobj.authtoken>>>>,
                    exc |-> o.exc]
          [] nobj.class = "NotifyXBMC" ->
               \* except KeyError: every status is handled
               [ret |-> IF st = 200 THEN "True" ELSE "False",
                events |-> sent, exc |-> NoneVal]
          [] nobj.class = "NotifyGrowl" ->
               IF ~nobj.is_registered
               THEN [ret |-> "None", events |-> << >>, exc |-> NoneVal]
               ELSE [ret |-> IF st = 200 THEN "True" ELSE "False",
                     events |-> sent, exc |-> NoneVal]
          [] nobj.class = "NotifyPushjet" ->
               [ret |-> IF st = 200 THEN "True" ELSE "False",
                events |-> sent, exc |-> NoneVal]

(***************************************************************************)
(* NotifyScript.notify as a state machine.  One call of                    *)
(* notify(servers, body, title, notify_type) is one behaviour: the inputs  *)
(* are chosen in Init, pc is the position in the code, idx the position of *)
(* the for loop in servers.  stage and log are history: the state every    *)
(* target has reached, and the operations done so far in order.            *)
(***************************************************************************)
\* tokens of the size the Pushover and Telegram validators ask for
U30 == "uuuuuuuuuuuuuuuuuuuuuuuuuuuuuu"
T30 == "tttttttttttttttttttttttttttttt"
B32 == "abcdefghijklmnopqrstuvwxyzabcdef"

\* the targets the lists of servers are made of
Corpus ==
    { "pover://" \o U30 \o "@" \o T30 \o "/d1/d2",
      "pover://" \o U30 \o "@" \o T30 \o "/d1/-bad",
      "pover://" \o U30 \o "@" \o T30 \o "/e403/d2",
      "pover://" \o T30 \o "/d1",
      "tgram://123456789:" \o B32 \o "/c1/c2",
      "tgram://123456789",
      "tgram://123456789:456/c1",
      "toasty://user@d1/down",
      "faast://e403",
      "kodis://u:p@e400:8080",
      "growl://pw@host",
      "slack://T/B",
      "bogus://x",
      "xbmc://host:abc" }

\* the values of the IncludeImage option
ImageOptions == {"", "http://h/i.png", "ftp://h/i.png", "file:///tmp/i.png",
                 "file:///tmp/missing.png"}

\* the files that exist on the host
FileExists(path) == path \in {"/tmp/i.png"}

\* the longest list of servers
MaxTargets == 2

Title == "Download complete"
Body == "# nzb\r\nsecond\r\nthird"

ServerLists == UNION {[1..n -> Corpus] : n \in 0..MaxTargets}

NoServer == [ok |-> FALSE]
NoObj == [class |-> NoneVal]
NoCall == [title |-> "", body |-> ""]

VARIABLES servers, IncludeImage, title, pc, idx, include_image, image_url,
          image_path, body, server, args, nobj, call, devices, has_error,
          stage, log, ret, exc,
          given, url, default_schema, result, again, notify_type, image,
          recipients,
          procs, pidfile, clock, child, now

\* the variables of NotifyScript.notify
nvars == <<servers, IncludeImage, title, pc, idx, include_image, image_url,
           image_path, body, server, args, nobj, call, devices, has_error,
           stage, log, ret, exc>>

\* what the script shares with other processes: the processes that call
\* is_unique_instance, the PID file and the clock of its modification
\* times, and the child process of the SABnzbd wrapper and the time since
\* it was started
osvars == <<procs, pidfile, clock, child, now>>

\* no process, no PID file, no child
NoFile == [exists |-> FALSE, t |-> "empty", v |-> 0, mtime |-> 0]
NoChild == [state |-> "none", code |-> 0]
OsIdle ==
    /\ procs = << >>
    /\ pidfile = NoFile
    /\ clock = 0
    /\ child = NoChild
    /\ now = 0

\* the variables of the calls of parse_url, image_url, image_raw and
\* NotifyPushBullet.notify on their own
lvars == <<given, url, default_schema, result, again, notify_type, image,
           recipients>>

avars == <<lvars, osvars>>

vars == <<nvars, avars>>

\* nothing has been parsed, resolved or classified
LibIdle ==
    /\ given = NoneVal
    /\ url = ""
    /\ default_schema = "http"
    /\ result = [ok |-> FALSE]
    /\ again = [ok |-> FALSE]
    /\ notify_type = "info"
    /\ image = [url |-> NoneVal, raw |-> NoneVal]
    /\ recipients = << >>

\* nor is anything shared with another process
AuxIdle == LibIdle /\ OsIdle

Event(t, k, r, n) == [t |-> t, k |-> k, r |-> r, n |-> n]

Init ==
    /\ servers \in ServerLists
    /\ IncludeImage \in ImageOptions
    /\ title = Title
    /\ body = Body
    /\ pc = "start"
    /\ idx = 1
    /\ include_image = FALSE
    /\ image_url = NoneVal
    /\ image_path = NoneVal
    /\ server = NoServer
    /\ args = EmptyDict
    /\ nobj = NoObj
    /\ call = NoCall
    /\ devices = << >>
    /\ has_error = FALSE
    /\ stage = [i \in 1..Len(servers) |-> "Pending"]
    /\ log = << >>
    /\ ret = NoneVal
    /\ exc = NoneVal
    /\ AuxIdle

\* re.match('^(https?|file)$', schema, re.IGNORECASE)
IsImageSchema(schema) == Lower(schema) \in {"http", "https", "file"}

\* lines 426-461: the Include Image flag
CheckImage ==
    /\ pc = "start"
    /\ \E _url \in {parse_url(IncludeImage, "http", TRUE)} :
           IF ~_url.ok
           THEN /\ include_image' = parse_bool(IncludeImage, FALSE)
                /\ pc' = "loop"
                /\ UNCHANGED <<image_url, image_path, ret, exc>>
           ELSE IF ~IsImageSchema(_url.schema)
           THEN /\ include_image' = TRUE
                /\ ret' = "False"
                /\ pc' = "rejected"
                /\ UNCHANGED <<image_url, image_path, exc>>
           ELSE IF _url.schema = "file"
           \* isile is not a name of the module
           THEN /\ include_image' = TRUE
                /\ exc' = "NameError"
                /\ pc' = "raised"
                /\ UNCHANGED <<image_url, image_path, ret>>
           ELSE /\ include_image' = TRUE
                /\ image_url' = _url.url
                /\ pc' = "loop"
                /\ UNCHANGED <<image_path, ret, exc>>
    /\ UNCHANGED <<servers, IncludeImage, title, idx, body, server, args,
                   nobj, call, devices, has_error, stage, log>>
    /\ UNCHANGED avars

\* the loop goes on with the next server
Continue(outcome) ==
    /\ stage' = [stage EXCEPT ![idx] = outcome]
    /\ idx' = idx + 1
    /\ pc' = "loop"

\* lines 469-513: for _server in servers, parse_url and the Telegram retry
Decompose ==
    /\ pc = "loop"
    /\ idx <= Len(servers)
    /\ \E d \in {decompose(servers[idx])} :
           /\ server' = d.server
           /\ log' = Append(log, Event(idx, "decompose", d.rewritten, d.calls))
           /\ IF d.server.ok
              THEN /\ stage' = [stage EXCEPT ![idx] = "Parsed"]
                   /\ pc' = "lookup"
                   /\ idx' = idx
              ELSE Continue("ParseFailed")
    /\ UNCHANGED <<servers, IncludeImage, title, include_image, image_url,
                   image_path, body, args, nobj, call, devices, has_error,
                   ret, exc>>
    /\ UNCHANGED avars

\* Lookup leaving the loop at the first scheme that is not supported
Lookup_break ==
    /\ pc = "lookup"
    /\ log' = Append(log, Event(idx, "lookup", server.schema, 0))
    /\ IF server.schema \in DOMAIN SCHEMA_MAP
       THEN /\ stage' = [stage EXCEPT ![idx] = "Routed"]
            /\ pc' = "extract"
            /\ idx' = idx
       ELSE /\ stage' = [stage EXCEPT ![idx] = "RoutingFailed"]
            /\ idx' = Len(servers) + 1
            /\ pc' = "loop"
    /\ UNCHANGED <<servers, IncludeImage, title, include_image, image_url,
                   image_path, body, server, args, nobj, call, devices,
                   has_error, ret, exc>>
    /\ UNCHANGED avars

\* lines 515-522: if server['schema'] not in SCHEMA_MAP
Lookup ==
    /\ pc = "lookup"
    /\ log' = Append(log, Event(idx, "lookup", server.schema, 0))
    /\ IF server.schema \in DOMAIN SCHEMA_MAP
       THEN /\ stage' = [stage EXCEPT ![idx] = "Routed"]
            /\ pc' = "extract"
            /\ idx' = idx
       ELSE Continue("RoutingFailed")
    /\ UNCHANGED <<servers, IncludeImage, title, include_image, image_url,
                   image_path, body, server, args, nobj, call, devices,
                   has_error, ret, exc>>
    /\ UNCHANGED avars

\* lines 524-956: the arguments of the notifier
Extract ==
    /\ pc = "extract"
    /\ \E e \in {extract(server, body,
                        notify_args(server, include_image, image_url,
                                    image_path))} :
           /\ log' = Append(log, Event(idx, "extract", e.exc, 0))
           /\ IF e.exc = "continue"
              THEN /\ Continue("ValidationFailed")
                   /\ UNCHANGED <<args, body, exc>>
              ELSE IF e.exc # NoneVal
              THEN /\ exc' = e.exc
                   /\ pc' = "raised"
                   /\ UNCHANGED <<args, body, stage, idx>>
              ELSE /\ args' = e.args
                   /\ body' = e.body
                   /\ pc' = "construct"
                   /\ UNCHANGED <<exc, stage, idx>>
    /\ UNCHANGED <<servers, IncludeImage, title, include_image,
                   image_url, image_path, server, nobj, call, devices,
                   has_error, ret>>
    /\ UNCHANGED avars

\* lines 957-970: nobj = SCHEMA_MAP[server['schema']](**dict(notify_args));
\* only a TypeError is a validation failure
Construct ==
    /\ pc = "construct"
    /\ SCHEMA_MAP[server.schema] \in ModelledClasses
    /\ \E c \in {construct(SCHEMA_MAP[server.schema], args)} :
           /\ log' = Append(log, Event(idx, "construct", c.exc, 0))
           /\ IF c.exc = "TypeError"
              THEN /\ Continue("ValidationFailed")
                   /\ UNCHANGED <<nobj, exc>>
              ELSE IF c.exc # NoneVal
              THEN /\ exc' = c.exc
                   /\ pc' = "raised"
                   /\ UNCHANGED <<nobj, stage, idx>>
              ELSE /\ nobj' = c.nobj
                   /\ stage' = [stage EXCEPT ![idx] = "Validated"]
                   /\ pc' = "notify"
                   /\ UNCHANGED <<idx, exc>>
    /\ UNCHANGED <<servers, IncludeImage, title, include_image, image_url,
                   image_path, body, server, args, call, devices, has_error,
                   ret>>
    /\ UNCHANGED avars

\* line 972 and NotifyBase.notify, lines 344-376: nobj.notify(body, title,
\* notify_type) cuts the title and the body and calls _notify
Invoke ==
    /\ pc = "notify"
    /\ call' = [title |-> NotifyBase_title(nobj, title),
                body |-> Head(NotifyBase_bodies(nobj, body))]
    /\ log' = Append(log, Event(idx, "notify", nobj.class, 0))
    /\ IF nobj.class \in FanoutClasses
       THEN /\ devices' = FanoutList(nobj)
            /\ has_error' = FALSE
            /\ pc' = "fanout"
       ELSE /\ pc' = "single"
            /\ UNCHANGED <<devices, has_error>>
    /\ UNCHANGED <<servers, IncludeImage, title, idx, include_image,
                   image_url, image_path, body, server, args, nobj, stage,
                   ret, exc>>
    /\ UNCHANGED avars

\* the events of one step of _notify, as entries of the log
Logged(events) == [i \in 1..Len(events) |->
                      Event(idx, events[i][1], events[i][2], 0)]

\* what nobj.notify() returned for the target: its boolean is the
\* outcome of the delivery
Delivery(returned) == IF returned THEN "Delivered" ELSE "DeliveryFailed"

\* one pass of the while loop of _notify over the recipients
SendNext ==
    /\ pc = "fanout"
    /\ devices # << >>
    /\ \E it \in {FanoutIter(nobj, devices, has_error)} :
           /\ devices' = it.devices
           /\ has_error' = it.has_error
           /\ log' = log \o Logged(it.events)
           /\ IF it.exc # NoneVal
              THEN exc' = it.exc /\ pc' = "raised"
              ELSE exc' = exc /\ pc' = pc
    /\ UNCHANGED <<servers, IncludeImage, title, idx, include_image,
                   image_url, image_path, body, server, args, nobj, call,
                   stage, ret>>
    /\ UNCHANGED avars

\* the list is empty: _notify returns has_error, NotifyBase.notify returns
\* False when that is false, and the for loop goes on
FanoutDone ==
    /\ pc = "fanout"
    /\ devices = << >>
    /\ log' = Append(log, Event(idx, "return",
                                IF has_error THEN "True" ELSE "False", 0))
    /\ Continue(Delivery(has_error))
    /\ UNCHANGED <<servers, IncludeImage, title, include_image, image_url,
                   image_path, body, server, args, nobj, call, devices,
                   has_error, ret, exc>>
    /\ UNCHANGED avars

\* _notify of a notifier with one request, and the return of notify()
SendOne ==
    /\ pc = "single"
    /\ \E r \in {SingleSend(nobj)} :
           IF r.exc # NoneVal
           THEN /\ log' = log \o Logged(r.events)
                /\ exc' = r.exc
                /\ pc' = "raised"
                /\ UNCHANGED <<stage, idx>>
           ELSE /\ log' = (log \o Logged(r.events))
                          \o <<Event(idx, "return",
                                     IF r.ret = "True" THEN "True"
                                     ELSE "False", 0)>>
                /\ Continue(Delivery(r.ret = "True"))
                /\ exc' = exc
    /\ UNCHANGED <<servers, IncludeImage, title, include_image, image_url,
                   image_path, body, server, args, nobj, call, devices,
                   has_error, ret>>
    /\ UNCHANGED avars

\* ReturnTrue reporting whether every target was delivered to
ReturnTrue_aggregate ==
    /\ pc = "loop"
    /\ idx > Len(servers)
    /\ ret' = IF \A i \in 1..Len(servers) : stage[i] = "Delivered"
              THEN "True" ELSE "False"
    /\ pc' = "returned"
    /\ UNCHANGED <<servers, IncludeImage, title, idx, include_image,
                   image_url, image_path, body, server, args, nobj, call,
                   devices, has_error, stage, log, exc>>
    /\ UNCHANGED avars

\* line 975: Always return true
ReturnTrue ==
    /\ pc = "loop"
    /\ idx > Len(servers)
    /\ ret' = "True"
    /\ pc' = "returned"
    /\ UNCHANGED <<servers, IncludeImage, title, idx, include_image,
                   image_url, image_path, body, server, args, nobj, call,
                   devices, has_error, stage, log, exc>>
    /\ UNCHANGED avars

Next ==
    \/ CheckImage
    \/ Decompose
    \/ Lookup
    \/ Extract
    \/ Construct
    \/ Invoke
    \/ SendNext
    \/ FanoutDone
    \/ SendOne
    \/ ReturnTrue

Spec == Init /\ [][Next]_vars

(***************************************************************************)
(* NotifyBase.notify on its own: a notifier of every configuration of      *)
(* lengths and format is called once with a title and a body of a length   *)
(* around its limits.                                                      *)
(***************************************************************************)
\* title_maxlen and body_maxlen: the defaults of NotifyBase.__init__ and
\* the values the backends pass
BaseConfigs == {<<100, 512>>, <<250, 512>>, <<250, 4096>>, <<250, 32768>>}

\* how far from a limit the lengths of the texts go
MaxOver == 1

Twice(s) == s \o s

\* a paragraph of n characters
RECURSIVE Text(_)
Text(n) ==
    IF n = 0 THEN ""
    ELSE IF n % 2 = 1 THEN "a" \o Text(n - 1)
    ELSE Twice(Text(n \div 2))

Lengths(maxlen) == {0} \cup {n \in (maxlen - MaxOver)..(maxlen + MaxOver) : n >= 0}

BaseKwargs ==
    [host |-> NoneVal, user |-> NoneVal, password |-> NoneVal,
     port |-> PortNone, include_image |-> FALSE, secure |-> FALSE,
     override_image_url |-> NoneVal]

InitBase ==
    /\ \E cfg \in BaseConfigs, f \in NOTIFY_FORMATS :
          nobj = NotifyBase_init(cfg[1], cfg[2], f, NoneVal, BaseKwargs).nobj
    /\ title \in {Text(n) : n \in Lengths(nobj.title_maxlen)}
    /\ body \in {Text(n) : n \in Lengths(nobj.body_maxlen)}
    /\ pc = "base"
    /\ servers = << >>
    /\ IncludeImage = ""
    /\ idx = 1
    /\ include_image = FALSE
    /\ image_url = NoneVal
    /\ image_path = NoneVal
    /\ server = NoServer
    /\ args = EmptyDict
    /\ call = NoCall
    /\ devices = << >>
    /\ has_error = FALSE
    /\ stage = << >>
    /\ log = << >>
    /\ ret = NoneVal
    /\ exc = NoneVal
    /\ AuxIdle

\* NotifyBase.notify, lines 344-376, up to the call of _notify
BaseNotify ==
    /\ pc = "base"
    /\ call' = [title |-> NotifyBase_title(nobj, title),
                body |-> Head(NotifyBase_bodies(nobj, body))]
    /\ pc' = "called"
    /\ UNCHANGED <<servers, IncludeImage, title, idx, include_image,
                   image_url, image_path, body, server, args, nobj, devices,
                   has_error, stage, log, ret, exc>>
    /\ UNCHANGED avars

NextBase == BaseNotify

SpecBase == InitBase /\ [][NextBase]_vars

(***************************************************************************)
(* The library calls on their own: parse_url on the strings of the URL     *)
(* grammar scheme://[user[:password]@]host[:port][/path][?key=value&...],  *)
(* with and without the scheme.                                            *)
(***************************************************************************)
\* the parts a string is written from; NoneVal for a part that is left out
ParseInputs ==
    { g \in [scheme : {"", "http", "HTTPS", "Kodi"},
             user : {NoneVal, "alice"},
             password : {NoneVal, "x"},
             host : {"host", "H.example.com"},
             port : {NoneVal, "0", "abc", "8080", "-1", ""},
             path : {"", "/", "/a/b"},
             quser : {NoneVal, "b%40b", ""},
             qpass : {NoneVal, "s3cret"},
             qkey : {NoneVal, "val"}] :
        g.user = NoneVal => g.password = NoneVal }

\* the string of the parts
Assemble(g) ==
    (IF g.scheme = "" THEN "" ELSE g.scheme \o "://")
    \o (IF g.user = NoneVal THEN ""
        ELSE IF g.password = NoneVal THEN g.user \o "@"
        ELSE g.user \o ":" \o g.password \o "@")
    \o g.host
    \o (IF g.port = NoneVal THEN "" ELSE ":" \o g.port)
    \o g.path
    \o (IF {g.qkey, g.quser, g.qpass} = {NoneVal} THEN ""
        ELSE "?" \o Join((IF g.qkey = NoneVal THEN << >>
                          ELSE <<"Key=" \o g.qkey>>)
                         \o (IF g.quser = NoneVal THEN << >>
                             ELSE <<"user=" \o g.quser>>)
                         \o (IF g.qpass = NoneVal THEN << >>
                             ELSE <<"pass=" \o g.qpass>>), "&"))

(***************************************************************************)
(* NotifyBase.image_url and NotifyBase.image_raw.                          *)
(***************************************************************************)
NOTIFY_TYPES == {"info", "success", "failure", "warning"}

NOTIFY_IMAGE_URL ==
    "http://nzbget.lead2gold.org/notify/nzbget-notify-{TYPE}-{XY}.png"

\* abspath(join(dirname(__file__), 'var', ...)), below the directory the
\* package is installed in
NOTIFY_IMAGE_FILE == "/pnotify/var/nzbget-notify-{TYPE}-{XY}.png"

\* re_table.sub(lambda x: re_map[x.group()], template)
re_table_sub(template, type, xy) ==
    Replace(Replace(template, "{TYPE}", type), "{XY}", xy)

\* Returns Image URL if possible
image_url_of(o, type) ==
    IF o.override_image_url \notin {NoneVal, ""} THEN o.override_image_url
    ELSE IF o.image_size \in {NoneVal, ""} THEN NoneVal
    ELSE IF type \notin NOTIFY_TYPES THEN NoneVal
    ELSE re_table_sub(NOTIFY_IMAGE_URL, type, o.image_size)

\* open(_file, 'rb') and fd.read(): what is read from a file of the set
\* files, None for any other path
ReadFile(file, files) ==
    IF file \in files THEN "content of " \o file ELSE NoneVal

\* Returns the raw image if it can
image_raw_of(o, type, files) ==
    IF o.override_image_path \in {NoneVal, ""}
    THEN IF o.image_size \in {NoneVal, ""} THEN NoneVal
         ELSE IF type \notin NOTIFY_TYPES THEN NoneVal
         ELSE ReadFile(re_table_sub(NOTIFY_IMAGE_FILE, type, o.image_size),
                       files)
    ELSE ReadFile(o.override_image_path, files)

\* recipient segments of the path of a PushBullet target
Segments == {"#teamroom", "a@b.com", "device123", "#a@b.com", "A.B@Ex-1.org",
             "a@b"}

\* the files that are there when an image is resolved: the images of the
\* package, the file of the override path
FileSystems ==
    LET ThemedFiles == { re_table_sub(NOTIFY_IMAGE_FILE, t, xy) :
                             t \in NOTIFY_TYPES, xy \in NOTIFY_IMAGE_SIZES }
    IN  { {}, {"/tmp/i.png"}, ThemedFiles, ThemedFiles \cup {"/tmp/i.png"} }

(***************************************************************************)
(* NotifyPushBullet: the recipients and what each of them is taken for.    *)
(***************************************************************************)
PUSHBULLET_SEND_TO_ALL == "ALL_DEVICES"

\* Used to break apart list of potential recipients by their delimiter
RECIPIENTS_LIST_DELIM == {" ", "\t", "\r", "\n", ",", "\\", "/"}

\* IS_EMAIL_RE.match(s), ignoring case: a local part of letters, digits
\* and the punctuation of LocalCh with single dots inside, then @, a label
\* of letters, digits and hyphens that starts and ends with a letter or a
\* digit, a dot, and one letter or digit; matched as a prefix of s.  The
\* grave accent of the pattern has no string to stand for it here and is
\* left out of LocalCh.
IS_EMAIL_RE(s) ==
    LET local == Upto(s, FirstIn(s, {"@"}) - 1)
        dom == From(s, FirstIn(s, {"@"}) + 1)
        n == FirstNotIn(dom, AlNum \cup {"-"}) - 1
        LocalCh == AlNum \cup {"!", "#", "$", "%", "&", "'", "*", "+", "/",
                               "=", "?", "^", "_", "{", "|", "}", "~", "-"}
    IN  /\ FirstIn(s, {"@"}) >= 2
        /\ \A i \in 1..Len(local) : Ch(local, i) \in LocalCh \cup {"."}
        /\ Ch(local, 1) # "."
        /\ LastCh(local) # "."
        /\ \A i \in 1..(Len(local) - 1) :
               ~(Ch(local, i) = "." /\ Ch(local, i + 1) = ".")
        /\ n >= 1
        /\ Ch(dom, 1) \in AlNum
        /\ Ch(dom, n) \in AlNum
        /\ Ch(dom, n + 1) = "."
        /\ Ch(dom, n + 2) \in AlNum

\* NotifyPushBullet.__init__: self.recipients for a string of recipients
NotifyPushBullet_init(rcpts) ==
    IF NonEmpty(SplitRuns(rcpts, RECIPIENTS_LIST_DELIM)) = << >>
    THEN <<PUSHBULLET_SEND_TO_ALL>>
    ELSE NonEmpty(SplitRuns(rcpts, RECIPIENTS_LIST_DELIM))

\* the key of the payload the recipient is put under
PayloadKey(recipient) ==
    IF IS_EMAIL_RE(recipient) THEN "email"
    ELSE IF Ch(recipient, 1) = "#" THEN "channel_tag"
    ELSE "device_iden"

(***************************************************************************)
(* ScriptBase.run.  What the main function does is [t, v, s]: it returns   *)
(* a bool (v is 1 for True), None, the int v or the string s, it raises    *)
(* the exception named s, or it raises NZBGetExitException(code=v).        *)
(***************************************************************************)
EXIT_CODE == [PARCHECK_CURRENT |-> 91, PARCHECK_ALL |-> 92, SUCCESS |-> 93,
              FAILURE |-> 94, NONE |-> 95]

EXIT_CODES == {EXIT_CODE.PARCHECK_CURRENT, EXIT_CODE.PARCHECK_ALL,
               EXIT_CODE.SUCCESS, EXIT_CODE.FAILURE, EXIT_CODE.NONE}

\* raise NZBGetSuccess() and the like raise the TypeError of
\* Exception.__init__(code=...), which takes no keyword arguments
MainOutcomes ==
    [t : {"bool"}, v : {0, 1}, s : {""}]
    \cup [t : {"none"}, v : {0}, s : {""}]
    \cup [t : {"int"}, v : {0, 1, 90, 91, 92, 93, 94, 95, 96, 255}, s : {""}]
    \cup [t : {"str"}, v : {0}, s : {"", "done", "93"}]
    \cup [t : {"raise"}, v : {0},
          s : {"Exception", "KeyError", "TypeError", "SystemExit"}]
    \cup [t : {"exit"}, v : {0, 91, 92, 93, 94, 95, 96}, s : {""}]

\* the dispatcher is idle while a library call is made on its own
InitLib ==
    /\ OsIdle
    /\ title = Title
    /\ body = Body
    /\ idx = 1
    /\ include_image = FALSE
    /\ image_url = NoneVal
    /\ image_path = NoneVal
    /\ server = NoServer
    /\ call = NoCall
    /\ devices = << >>
    /\ has_error = FALSE
    /\ log = << >>
    /\ ret = NoneVal
    /\ exc = NoneVal
    /\ result = [ok |-> FALSE]
    /\ again = [ok |-> FALSE]
    /\ image = [url |-> NoneVal, raw |-> NoneVal]
    /\ \/ /\ pc = "parse"
          /\ given \in ParseInputs
          /\ url = Assemble(given)
          /\ default_schema \in {"http", "unknown"}
          /\ args = EmptyDict
          /\ nobj = NoObj
          /\ notify_type = "info"
          /\ recipients = << >>
       \* a PushBullet target with up to two recipient segments in its
       \* path; recipients = unquote(fullpath), empty without path
       \/ /\ pc = "pbul"
          /\ given = NoneVal
          /\ \E segs \in {<< >>} \cup [1..1 -> Segments]
                         \cup [1..2 -> Segments] :
                 url = "pbul://tok" \o Join([i \in 1..Len(segs) |->
                                                 "/" \o segs[i]], "")
          /\ default_schema = "unknown"
          /\ args = EmptyDict
          /\ nobj = NoObj
          /\ notify_type = "info"
          /\ \E fp \in {decompose(url).server.fullpath} :
                 recipients = NotifyPushBullet_init(
                                  IF fp = NoneVal THEN "" ELSE unquote(fp))
       \* a path string of two tokens around one run of delimiters
       \/ /\ pc = "split"
          /\ given = NoneVal
          /\ \E a \in {"", "d1"}, b \in {"", "-c2", "@x"},
                d \in {"/", ",", " ", "\t", "\r", "\n", "\\", "#", ", /",
                       "/#", "_", "%23"} :
                 url = a \o d \o b
          /\ default_schema = "http"
          /\ args = EmptyDict
          /\ nobj = NoObj
          /\ notify_type = "info"
          /\ recipients = << >>
       \* notify called with a string or a list as servers, the Servers
       \* option of the script being set or not
       \/ /\ pc = "entry"
          /\ given \in [is_string : BOOLEAN,
                        string : {"", "growl://pw@host",
                                  "growl://pw@host, faast://e403",
                                  "faast://e403;faast://e403 [bogus://x]"},
                        list : {<< >>, <<"faast://e403", "growl://pw@host">>,
                                <<"bogus://x", "bogus://x">>},
                        Servers : {NoneVal, "growl://pw@host",
                                   "growl://pw@host, faast://e403",
                                   "faast://e403;faast://e403 [bogus://x]"}]
          /\ url = ""
          /\ default_schema = "http"
          /\ args = EmptyDict
          /\ nobj = NoObj
          /\ notify_type = "info"
          /\ recipients = << >>
       \* postprocess_main in the environment NZBGet gives a post-processing
       \* script; the three Include options are set to no
       \/ /\ pc = "postprocess"
          /\ given \in [unset : {{}, {"Servers"}, {"OnSuccess"}},
                        version : {10, 12, 13},
                        parstatus : {"SUCCESS", "FAILURE"},
                        unpackstatus : {"SUCCESS", "FAILURE"},
                        status : {[text |-> "SUCCESS/ALL", is_unpacked |-> TRUE],
                                  [text |-> "FAILURE/UNPACK",
                                   is_unpacked |-> FALSE]},
                        OnFailure : {"yes", "no"},
                        OnSuccess : {"yes", "no"},
                        Servers : {"faast://ok", "bogus://x, faast://ok"}]
          /\ url = ""
          /\ default_schema = "http"
          /\ args = EmptyDict
          /\ nobj = NoObj
          /\ notify_type = "info"
          /\ recipients = << >>
       \* run with a main function of each outcome; self.pidfile is None
       \/ /\ pc = "run"
          /\ given \in MainOutcomes
          /\ url = ""
          /\ default_schema = "http"
          /\ args = EmptyDict
          /\ nobj = NoObj
          /\ notify_type = "info"
          /\ recipients = << >>
       \/ /\ pc = "image"
          /\ given \in FileSystems
          /\ url = ""
          /\ default_schema = "http"
          \* the arguments the dispatcher gives a notifier for
          \* growl://pw@host, with the two overrides
          /\ \E u \in {NoneVal, "http://h/i.png"},
                p \in {NoneVal, "/tmp/i.png"} :
                 args = notify_args(parse_url("growl://pw@host", "unknown",
                                              TRUE), TRUE, u, p)
          /\ \E image_size \in {NoneVal} \cup NOTIFY_IMAGE_SIZES :
                 nobj = NotifyBase_init(100, 512, "text", image_size,
                                        args).nobj
          /\ notify_type \in NOTIFY_TYPES \cup {"bogus"}
          /\ recipients = << >>
       \* the dispatcher on one target, for the values the IncludeImage
       \* option is documented with and some more
       \/ /\ pc = "start"
          /\ given = NoneVal
          /\ url = ""
          /\ default_schema = "http"
          /\ args = EmptyDict
          /\ nobj = NoObj
          /\ notify_type = "info"
          /\ recipients = << >>
    /\ servers \in IF pc = "start"
                   THEN {<<"kodis://u:p@e400:8080">>, <<"faast://e403">>,
                         <<"bogus://x">>,
                         <<"mailto://alice:x@example.com?user=bob&pass=y">>,
                         <<"mailtos://alice:x@example.com">>,
                         <<"mailto://example.com?user=bob&pass=y">>,
                         <<"mailto://alice@example.com?pass=y&from=noreply">>,
                         <<"mailto://.a:x@example.com?user=alice">>}
                   ELSE {<< >>}
    /\ IncludeImage \in IF pc = "start"
                        THEN {"yes", "no", "Yes", "NO", "on", "off", "1",
                              "0", "true", "false", "", "maybe",
                              "https://h/i.png", "HTTP://h/i.png",
                              "ftp://h/i.png", "file:///tmp/i.png"}
                        ELSE {""}
    /\ stage = [i \in 1..Len(servers) |-> "Pending"]

\* result = parse_url(url, default_schema), and the call of parse_url on
\* the url of the result
Parse ==
    /\ pc = "parse"
    /\ \E r \in {parse_url(url, default_schema, TRUE)} :
           /\ result' = r
           /\ again' = IF r.ok THEN parse_url(r.url, default_schema, TRUE)
                       ELSE r
    /\ pc' = "parsed"
    /\ UNCHANGED <<servers, IncludeImage, title, idx, include_image,
                   image_url, image_path, body, server, args, nobj, call,
                   devices, has_error, stage, log, ret, exc>>
    /\ UNCHANGED <<given, url, default_schema, notify_type, image,
                   recipients>>
    /\ UNCHANGED osvars

\* image = the values of self.image_url(notify_type) and
\* self.image_raw(notify_type)
ResolveImage ==
    /\ pc = "image"
    /\ image' = [url |-> image_url_of(nobj, notify_type),
                 raw |-> image_raw_of(nobj, notify_type, given)]
    /\ pc' = "resolved"
    /\ UNCHANGED <<servers, IncludeImage, title, idx, include_image,
                   image_url, image_path, body, server, args, nobj, call,
                   devices, has_error, stage, log, ret, exc>>
    /\ UNCHANGED <<given, url, default_schema, result, again, notify_type,
                   recipients>>
    /\ UNCHANGED osvars

\* NotifyPushBullet.notify, one recipient of the loop: the payload, the
\* request and its answer (0 for a ConnectionError); return True after the
\* last one
PushBulletNotify ==
    /\ pc = "pbul"
    /\ IF recipients = << >>
       THEN /\ ret' = TRUE
            /\ pc' = "returned"
            /\ UNCHANGED <<log, recipients>>
       ELSE /\ \E status \in {200, 500, 0} :
                   log' = Append(log, Event(0, PayloadKey(Head(recipients)),
                                            Head(recipients), status))
            /\ recipients' = Tail(recipients)
            /\ UNCHANGED <<pc, ret>>
    /\ UNCHANGED <<servers, IncludeImage, title, idx, include_image,
                   image_url, image_path, body, server, args, nobj, call,
                   devices, has_error, stage, exc>>
    /\ UNCHANGED <<given, url, default_schema, result, again, notify_type,
                   image>>
    /\ UNCHANGED osvars

\* filter(bool, <delimiter>.split(url)) with the delimiter of the
\* dispatcher and with that of each backend
SplitPath ==
    /\ pc = "split"
    /\ result' = [dispatcher |-> NonEmpty(SplitRuns(url, PATHSPLIT_LIST_DELIM)),
                  pushover |-> NonEmpty(SplitRuns(url, DEVICE_LIST_DELIM)),
                  toasty |-> NonEmpty(SplitRuns(url, DEVICES_LIST_DELIM)),
                  telegram |-> NonEmpty(SplitRuns(url, CHAT_ID_LIST_DELIM)),
                  pushbullet |-> NonEmpty(SplitRuns(url,
                                                    RECIPIENTS_LIST_DELIM))]
    /\ pc' = "splitted"
    /\ UNCHANGED <<servers, IncludeImage, title, idx, include_image,
                   image_url, image_path, body, server, args, nobj, call,
                   devices, has_error, stage, log, ret, exc>>
    /\ UNCHANGED <<given, url, default_schema, again, notify_type, image,
                   recipients>>
    /\ UNCHANGED osvars

(***************************************************************************)
(* ScriptBase.parse_list and the first lines of NotifyScript.notify.       *)
(***************************************************************************)
\* the characters of STRING_DELIMITERS; the vertical tab of \s has no
\* string to stand for it here
STRING_DELIMITERS == {"[", "]", ";", ","} \cup WS \cup {"\f"}

\* set(result) of parse_list for one string argument, without the empty
\* strings filter(bool, ...) drops
parse_list(arg) ==
    {SplitRuns(arg, STRING_DELIMITERS)[i] :
        i \in {j \in 1..Len(SplitRuns(arg, STRING_DELIMITERS)) :
                  SplitRuns(arg, STRING_DELIMITERS)[j] # ""}}

\* list(set): the elements of S in every order a set can be listed in
ListsOf(S) ==
    {f \in [1..Cardinality(S) -> S] :
        \A i, j \in 1..Cardinality(S) : f[i] = f[j] => i = j}

\* self.get('Servers', '')
GetServers(option) == IF option = NoneVal THEN "" ELSE option

\* lines 463-467 of NotifyScript.notify: a string as servers is replaced
\* by the parsed Servers option of the script, a list is taken as it is
NotifyEntry ==
    /\ pc = "entry"
    /\ \E l \in IF given.is_string
                THEN ListsOf(parse_list(GetServers(given.Servers)))
                ELSE {given.list} :
           result' = [servers |-> l]
    /\ pc' = "entered"
    /\ UNCHANGED <<servers, IncludeImage, title, idx, include_image,
                   image_url, image_path, body, server, args, nobj, call,
                   devices, has_error, stage, log, ret, exc>>
    /\ UNCHANGED <<given, url, default_schema, again, notify_type, image,
                   recipients>>
    /\ UNCHANGED osvars

(***************************************************************************)
(* NotifyScript.postprocess_main.  env is the environment of the script:   *)
(* the options that are not set, the version of NZBGet, the status of the  *)
(* download and the options of the script.  The temporary directory is     *)
(* accessible and SCRIPTDIR is set.                                        *)
(***************************************************************************)
PostProcessKeys == {"Servers", "IncludeImage", "IncludeFiles", "IncludeStats",
                    "IncludeLogs", "OnFailure", "OnSuccess"}

\* self.get(key): None where the option is not set
GetOption(env, key) == IF key \in env.unset THEN NoneVal ELSE env[key]

\* postprocess_validate and _validate: every key is set and the version
\* is not below min_version=11
postprocess_validate(env, keys) ==
    /\ keys \cap env.unset = {}
    /\ ~(11 > env.version)

\* postprocess_health_check with is_unpacked=True, has_archive=False
postprocess_health_check(env) ==
    IF env.version < 13
    THEN /\ env.parstatus # "FAILURE"
         /\ env.unpackstatus # "FAILURE"
    ELSE env.status.is_unpacked

\* '## %s ##' % self.nzbname, NOTIFY_NEWLINE, 'Status: %s' % str(status)
PostProcessBody(env) == "## nzb ##" \o "\r\n" \o "Status: " \o env.status.text

\* the mutation of postprocess_main that notifies whatever OnSuccess and
\* OnFailure say
postprocess_main_always(env, health_okay, on_success, on_failure) ==
    IF ~postprocess_validate(env, PostProcessKeys)
    THEN [dispatch |-> FALSE, ret |-> "False"]
    ELSE [dispatch |-> TRUE,
          notify_type |-> IF health_okay THEN "success" ELSE "failure",
          title |-> IF health_okay THEN "Download Successful"
                    ELSE "Download Failed",
          body |-> PostProcessBody(env)]

\* postprocess_main up to its call of notify: [dispatch, ret] where it
\* returns before, [dispatch, notify_type, title, body] where it goes on
postprocess_main(env, health_okay, on_success, on_failure) ==
    IF ~postprocess_validate(env, PostProcessKeys)
    THEN [dispatch |-> FALSE, ret |-> "False"]
    ELSE IF health_okay /\ ~on_success
    THEN [dispatch |-> FALSE, ret |-> NoneVal]
    ELSE IF ~health_okay /\ ~on_failure
    THEN [dispatch |-> FALSE, ret |-> NoneVal]
    ELSE [dispatch |-> TRUE,
          notify_type |-> IF health_okay THEN "success" ELSE "failure",
          title |-> IF health_okay THEN "Download Successful"
                    ELSE "Download Failed",
          body |-> PostProcessBody(env)]

\* postprocess_main; where it notifies, notify starts on the parsed
\* Servers option
PostProcessMain ==
    /\ pc = "postprocess"
    /\ \E r \in {postprocess_main(given, postprocess_health_check(given),
                                 parse_bool(GetOption(given, "OnSuccess"),
                                            FALSE),
                                 parse_bool(GetOption(given, "OnFailure"),
                                            FALSE))} :
           /\ result' = [called |-> "postprocess_main",
                         dispatch |-> r.dispatch]
           /\ IF r.dispatch
              THEN /\ \E l \in ListsOf(parse_list(
                                  GetServers(GetOption(given, "Servers")))) :
                          /\ servers' = l
                          /\ stage' = [i \in 1..Len(l) |-> "Pending"]
                   /\ title' = r.title
                   /\ body' = r.body
                   /\ notify_type' = r.notify_type
                   /\ pc' = "start"
                   /\ ret' = ret
              ELSE /\ ret' = r.ret
                   /\ pc' = "postprocessed"
                   /\ UNCHANGED <<servers, stage, title, body, notify_type>>
    /\ UNCHANGED <<IncludeImage, idx, include_image, image_url, image_path,
                   server, args, nobj, call, devices, has_error, log, exc>>
    /\ UNCHANGED <<given, url, default_schema, again, image, recipients>>
    /\ UNCHANGED osvars

\* lines 2935-2955: the try around main_function
RunMain(main) ==
    CASE main.t = "exit" -> [t |-> "int", v |-> main.v, s |-> ""]
      [] main.t = "raise" -> [t |-> "int", v |-> EXIT_CODE.FAILURE, s |-> ""]
      [] OTHER -> main

\* lines 2969-2978: True, False and None as exit codes
Simplify(code) ==
    CASE code.t = "none" -> [t |-> "int", v |-> EXIT_CODE.NONE, s |-> ""]
      [] code.t = "bool" /\ code.v = 1 ->
             [t |-> "int", v |-> EXIT_CODE.SUCCESS, s |-> ""]
      [] code.t = "bool" /\ code.v = 0 ->
             [t |-> "int", v |-> EXIT_CODE.FAILURE, s |-> ""]
      [] OTHER -> code

\* lines 2980-2990: a code that is not in EXIT_CODES is logged with
\* 'The exit code %d is not valid, ' % exit_code, which raises TypeError
\* for a string, and is replaced by FAILURE
Validate(code) ==
    IF code.t = "str"
    THEN [raised |-> "TypeError", exit_code |-> 0]
    ELSE IF code.v \notin EXIT_CODES
    THEN [raised |-> NoneVal, exit_code |-> EXIT_CODE.FAILURE]
    ELSE [raised |-> NoneVal, exit_code |-> code.v]

\* ScriptBase.run
Run ==
    /\ pc = "run"
    /\ \E r \in {Validate(Simplify(RunMain(given)))} :
           /\ result' = [called |-> "run", raised |-> r.raised,
                         exit_code |-> r.exit_code]
           /\ pc' = IF r.raised = NoneVal THEN "ran" ELSE "raised"
           /\ exc' = IF r.raised = NoneVal THEN exc ELSE r.raised
    /\ UNCHANGED <<servers, IncludeImage, title, idx, include_image,
                   image_url, image_path, body, server, args, nobj, call,
                   devices, has_error, stage, log, ret>>
    /\ UNCHANGED <<given, url, default_schema, again, notify_type, image,
                   recipients>>
    /\ UNCHANGED osvars

NextLib ==
    \/ CheckImage
    \/ Decompose
    \/ Lookup
    \/ Extract
    \/ Construct
    \/ Parse
    \/ SplitPath
    \/ NotifyEntry
    \/ PostProcessMain
    \/ Run
    \/ PushBulletNotify
    \/ ResolveImage

SpecLib == InitLib /\ [][NextLib]_vars

(***************************************************************************)
(* ScriptBase.is_unique_instance, called by two running script processes   *)
(* on the same PID file with die_on_fail=False.  A process is              *)
(* [pc, pid, tstamp, calls, last, own, detached]: where it is in the call, *)
(* the pid it read, self.pidfile_tstamp (-1 for None), the calls it has    *)
(* made, what the last call returned, whether the PID file held its own    *)
(* pid when that call returned, and whether the file it has open was       *)
(* unlinked.  The directory of the PID file is there and can be written.   *)
(***************************************************************************)
\* self.pid of the two processes
Procs == {1, 2}

\* calls of is_unique_instance one process makes
MaxCalls == 2

\* the PID file before the first call: none, that of a process that is
\* gone, or one with bad data
PidFiles == {NoFile,
             [exists |-> TRUE, t |-> "pid", v |-> 9, mtime |-> 0],
             [exists |-> TRUE, t |-> "junk", v |-> 0, mtime |-> 0]}

InitPid ==
    /\ pc = "pid"
    /\ servers = << >> /\ IncludeImage = "" /\ title = Title /\ body = Body
    /\ idx = 1 /\ include_image = FALSE /\ image_url = NoneVal
    /\ image_path = NoneVal /\ server = NoServer /\ args = EmptyDict
    /\ nobj = NoObj /\ call = NoCall /\ devices = << >> /\ has_error = FALSE
    /\ stage = << >> /\ log = << >> /\ ret = NoneVal /\ exc = NoneVal
    /\ LibIdle
    /\ child = NoChild
    /\ now = 0
    /\ clock = 0
    /\ pidfile \in PidFiles
    /\ procs = [p \in Procs |->
                   [pc |-> "idle", pid |-> 0, tstamp |-> -1, calls |-> 0,
                    last |-> "none", own |-> FALSE, detached |-> FALSE]]

\* the PID file holds the pid of process p
Holds(file, p) == file.exists /\ file.t = "pid" /\ file.v = p

\* return v: the call of process p is over
Return(proc, v, file, p) ==
    [proc EXCEPT !.pc = "idle", !.last = v, !.own = Holds(file, p)]

\* _pid_running(pid): kill(pid, 0) finds the process
pid_running(pid) == pid \in Procs

\* lines 987-1021: a call begins
Call(p) ==
    /\ procs[p].pc = "idle"
    /\ procs[p].calls < MaxCalls
    /\ procs' = [procs EXCEPT ![p] =
                    [@ EXCEPT !.calls = @ + 1,
                              !.pc = IF procs[p].tstamp # -1
                                     THEN "tstamp" ELSE "isfile"]]
    /\ UNCHANGED <<pidfile, clock>>
    /\ UNCHANGED <<nvars, lvars, child, now>>

\* lines 1023-1056: the PID file written by an earlier call is compared by
\* its modification time
CheckTstamp(p) ==
    /\ procs[p].pc = "tstamp"
    /\ procs' = [procs EXCEPT ![p] =
                    IF ~pidfile.exists \/ pidfile.mtime # procs[p].tstamp
                    THEN Return([@ EXCEPT !.tstamp = -1], "False", pidfile, p)
                    ELSE [@ EXCEPT !.pc = "isfile"]]
    /\ UNCHANGED <<pidfile, clock>>
    /\ UNCHANGED <<nvars, lvars, child, now>>

\* line 1086: if isfile(self.pidfile)
IsFile(p) ==
    /\ procs[p].pc = "isfile"
    /\ procs' = [procs EXCEPT ![p].pc = IF pidfile.exists THEN "read"
                                        ELSE "open"]
    /\ UNCHANGED <<pidfile, clock>>
    /\ UNCHANGED <<nvars, lvars, child, now>>

\* lines 1087-1132: pid = int(open(self.pidfile, 'r').read())
Read(p) ==
    /\ procs[p].pc = "read"
    /\ procs' = [procs EXCEPT ![p] =
                    IF ~pidfile.exists
                    THEN Return([@ EXCEPT !.tstamp = -1], "False", pidfile, p)
                    ELSE IF pidfile.t # "pid"
                    THEN [@ EXCEPT !.pc = "unlink"]
                    ELSE [@ EXCEPT !.pc = "compare", !.pid = pidfile.v]]
    /\ UNCHANGED <<pidfile, clock>>
    /\ UNCHANGED <<nvars, lvars, child, now>>

\* lines 1096-1121: the file with bad data is unlinked; where that fails
\* the handler calls unlink again, and its OSError leaves the call
Unlink(p) ==
    /\ procs[p].pc = "unlink"
    /\ procs' = [q \in Procs |->
                    IF q = p
                    THEN IF pidfile.exists
                         THEN [procs[q] EXCEPT !.pc = "open"]
                         ELSE Return(procs[q], "raised", pidfile, p)
                    ELSE IF procs[q].pc = "close"
                    THEN [procs[q] EXCEPT !.detached = TRUE]
                    ELSE procs[q]]
    /\ pidfile' = NoFile
    /\ UNCHANGED clock
    /\ UNCHANGED <<nvars, lvars, child, now>>

\* lines 1134-1148: the pid of the file is that of the process, or that
\* of a process that is running, or that of none
Compare(p) ==
    /\ procs[p].pc = "compare"
    /\ procs' = [procs EXCEPT ![p] =
                    IF procs[p].pid = p
                    THEN Return(@, "True", pidfile, p)
                    ELSE IF pid_running(procs[p].pid)
                    THEN Return(@, "False", pidfile, p)
                    ELSE [@ EXCEPT !.pc = "open"]]
    /\ UNCHANGED <<pidfile, clock>>
    /\ UNCHANGED <<nvars, lvars, child, now>>

\* lines 1150-1159: fp = open(self.pidfile, "w") makes the file or empties
\* it
Open(p) ==
    /\ procs[p].pc = "open"
    /\ procs' = [procs EXCEPT ![p] = [@ EXCEPT !.pc = "close",
                                               !.detached = FALSE]]
    /\ pidfile' = [exists |-> TRUE, t |-> "empty", v |-> 0, mtime |-> clock]
    /\ UNCHANGED clock
    /\ UNCHANGED <<nvars, lvars, child, now>>

\* lines 1161-1178: fp.write(str(self.pid)) and fp.close(); the pid is in
\* the file when it is closed, at a modification time of whole seconds
Close(p) ==
    /\ procs[p].pc = "close"
    /\ procs' = [procs EXCEPT ![p].pc = "stat"]
    /\ IF procs[p].detached
       THEN UNCHANGED <<pidfile, clock>>
       ELSE \E c \in {clock, clock + 1} :
               /\ clock' = c
               /\ pidfile' = [exists |-> TRUE, t |-> "pid", v |-> p,
                              mtime |-> c]
    /\ UNCHANGED <<nvars, lvars, child, now>>

\* lines 1180-1207: self.pidfile_tstamp is the
\* modification time of the file and the call returns True
Stat(p) ==
    /\ procs[p].pc = "stat"
    /\ procs' = [procs EXCEPT ![p] =
                    IF ~pidfile.exists
                    THEN Return(@, "False", pidfile, p)
                    ELSE Return([@ EXCEPT !.tstamp = pidfile.mtime], "True",
                                pidfile, p)]
    /\ UNCHANGED <<pidfile, clock>>
    /\ UNCHANGED <<nvars, lvars, child, now>>

NextPid ==
    \/ \E p \in Procs : Call(p)
    \/ \E p \in Procs : CheckTstamp(p)
    \/ \E p \in Procs : IsFile(p)
    \/ \E p \in Procs : Read(p)
    \/ \E p \in Procs : Unlink(p)
    \/ \E p \in Procs : Compare(p)
    \/ \E p \in Procs : Open(p)
    \/ \E p \in Procs : Close(p)
    \/ \E p \in Procs : Stat(p)

SpecPid == InitPid /\ [][NextPid]_vars

(***************************************************************************)
(* src/sabnzbd-notify.py: notify, which runs Notify.py as a child process  *)
(* and waits for it.  now is the time since the child was started, in      *)
(* tenths of a second; it stops at MaxNow.                                 *)
(***************************************************************************)
\* maximum wait time before we abort a call to Notify.py, in seconds
NOTIFY_MAX_WAIT_TIME_SEC == 300

\* datetime.utcnow() + timedelta(seconds=NOTIFY_MAX_WAIT_TIME_SEC)
max_wait_time == NOTIFY_MAX_WAIT_TIME_SEC * 10

\* the last value of now
MaxNow == 3040

\* the names the module imports or defines, of those notify reads
ModuleNames == {"subprocess", "sys", "os", "getpid", "kill", "abspath",
                "dirname", "join", "sleep", "datetime", "timedelta",
                "logging"}

\* kill(p1.pid, SIGKILL) inside try / except: pass.  A name that is not in
\* the module raises NameError, which the except swallows; the signal
\* ends a child that is running.
TryKill(c) ==
    IF "SIGKILL" \notin ModuleNames THEN c
    ELSE IF c.state = "running" THEN [state |-> "killed", code |-> -9]
    ELSE c

\* the exit codes of Notify.py
ChildCodes == {0, 1, 93, 94}

InitWrap ==
    /\ pc = "popen"
    /\ servers = << >> /\ IncludeImage = "" /\ title = Title /\ body = Body
    /\ idx = 1 /\ include_image = FALSE /\ image_url = NoneVal
    /\ image_path = NoneVal /\ server = NoServer /\ args = EmptyDict
    /\ nobj = NoObj /\ call = NoCall /\ devices = << >> /\ has_error = FALSE
    /\ stage = << >> /\ log = << >> /\ ret = NoneVal /\ exc = NoneVal
    /\ LibIdle
    /\ procs = << >>
    /\ pidfile = NoFile
    /\ clock = 0
    /\ child = NoChild
    /\ now = 0

\* what a step of the wrapper or of the child leaves alone
WrapFrame ==
    UNCHANGED <<servers, IncludeImage, title, idx, include_image, image_url,
                image_path, body, server, args, nobj, call, devices,
                has_error, stage, log, exc, lvars, procs, pidfile, clock>>

\* p1 = subprocess.Popen(cmd)
Popen ==
    /\ pc = "popen"
    /\ child' = [state |-> "running", code |-> 0]
    /\ now' = 0
    /\ pc' = "poll"
    /\ UNCHANGED ret
    /\ WrapFrame

\* while p1.poll() == None
Poll ==
    /\ pc = "poll"
    /\ pc' = IF child.state = "running" THEN "timeout" ELSE "safety"
    /\ UNCHANGED <<child, now, ret>>
    /\ WrapFrame

\* if datetime.utcnow() >= max_wait_time: the child is to be killed
Timeout ==
    /\ pc = "timeout"
    /\ child' = IF now >= max_wait_time THEN TryKill(child) ELSE child
    /\ pc' = "sleep"
    /\ UNCHANGED <<now, ret>>
    /\ WrapFrame

\* sleep(0.8)
Sleep ==
    /\ pc = "sleep"
    /\ now' = IF now + 8 > MaxNow THEN MaxNow ELSE now + 8
    /\ pc' = "poll"
    /\ UNCHANGED <<child, ret>>
    /\ WrapFrame

\* if p1.poll() == None: kill, after the loop
Safety ==
    /\ pc = "safety"
    /\ child' = IF child.state = "running" THEN TryKill(child) ELSE child
    /\ pc' = "wait"
    /\ UNCHANGED <<now, ret>>
    /\ WrapFrame

\* p1.wait() and the return: False unless the code is 0 or 93
Wait ==
    /\ pc = "wait"
    /\ child.state # "running"
    /\ ret' = IF child.code \notin {0, 93} THEN "False" ELSE "True"
    /\ pc' = "returned"
    /\ UNCHANGED <<child, now>>
    /\ WrapFrame

\* Notify.py ends on its own
ChildExit ==
    /\ child.state = "running"
    /\ \E c \in ChildCodes : child' = [state |-> "exited", code |-> c]
    /\ UNCHANGED <<pc, now, ret>>
    /\ WrapFrame

\* the steps of the wrapper
WrapperNext ==
    \/ Popen
    \/ Poll
    \/ Timeout
    \/ Sleep
    \/ Safety
    \/ Wait

NextWrap ==
    \/ Popen
    \/ Poll
    \/ Timeout
    \/ Sleep
    \/ Safety
    \/ Wait
    \/ ChildExit

\* the wrapper goes on running; a child may never end on its own
SpecWrap == InitWrap /\ [][NextWrap]_vars /\ WF_vars(WrapperNext)

(***************************************************************************)
(* NotifyScript.notify as a function: the stages the targets of a list end *)
(* in when the loop is run over it, starting with body b.  A run is        *)
(* [stage, body, raised]: the stage the target is left in, the body the    *)
(* next target gets, and whether an exception ended the loop.              *)
(***************************************************************************)
Ran(st, b, raised) == [stage |-> st, body |-> b, raised |-> raised]

RECURSIVE FanoutRun(_, _, _, _)
FanoutRun(o, ds, err, b) ==
    IF ds = << >> THEN Ran(Delivery(err), b, FALSE)
    ELSE IF FanoutIter(o, ds, err).exc # NoneVal THEN Ran("Validated", b, TRUE)
    ELSE FanoutRun(o, FanoutIter(o, ds, err).devices,
                   FanoutIter(o, ds, err).has_error, b)

DeliveryRun(o, b) ==
    IF o.class \in FanoutClasses THEN FanoutRun(o, FanoutList(o), FALSE, b)
    ELSE IF SingleSend(o).exc # NoneVal THEN Ran("Validated", b, TRUE)
    ELSE Ran(Delivery(SingleSend(o).ret = "True"), b, FALSE)

ConstructedRun(c, b) ==
    IF c.exc = "TypeError" THEN Ran("ValidationFailed", b, FALSE)
    ELSE IF c.exc # NoneVal THEN Ran("Routed", b, TRUE)
    ELSE DeliveryRun(c.nobj, b)

ExtractedRun(srv, e, b) ==
    IF e.exc # NoneVal THEN Ran("Routed", b, TRUE)
    ELSE ConstructedRun(construct(SCHEMA_MAP[srv.schema], e.args), e.body)

TargetRun(srv, b) ==
    IF ~srv.ok THEN Ran("ParseFailed", b, FALSE)
    ELSE IF srv.schema \notin DOMAIN SCHEMA_MAP
    THEN Ran("RoutingFailed", b, FALSE)
    ELSE ExtractedRun(srv,
                      extract(srv, b, notify_args(srv, include_image,
                                                  image_url, image_path)),
                      b)

RECURSIVE BatchRun(_, _)
BatchNext(list, r) ==
    IF r.raised
    THEN <<r.stage>> \o [i \in 1..(Len(list) - 1) |-> "Pending"]
    ELSE <<r.stage>> \o BatchRun(Tail(list), r.body)

BatchRun(list, b) ==
    IF list = << >> THEN << >>
    ELSE BatchNext(list, TargetRun(decompose(Head(list)).server, b))

\* sequence s without its i-th element
RemoveAt(s, i) == SubSeq(s, 1, i - 1) \o SubSeq(s, i + 1, Len(s))

(***************************************************************************)
(* Properties of NotifyScript.notify.                                      *)
(***************************************************************************)
Terminal == {"ParseFailed", "RoutingFailed", "ValidationFailed",
             "Delivered", "DeliveryFailed"}

\* the entries of the log that are about target t and of a kind in K
EventsOf(t, K) == SelectSeq(log, LAMBDA e : e.t = t /\ e.k \in K)

\* the recipients target t's notifier has taken from its list, in order
Recipients(t) == [i \in 1..Len(EventsOf(t, {"send", "skip"})) |->
                     EventsOf(t, {"send", "skip"})[i].r]

\* C5: when notify has run its loop over the servers to the end it has
\* returned True, whatever the targets' outcomes are; the list may be empty
C5_LoopEndReturnsTrue ==
    (pc = "returned" /\ idx > Len(servers)) => ret = "True"

\* the loop has ended over two targets that both failed
C5_Witness ==
    /\ pc = "returned"
    /\ Len(servers) = 2
    /\ stage[1] = "ParseFailed"
    /\ stage[2] = "DeliveryFailed"
    /\ ret = "True"

\* C7: the targets are processed one after another in the order of
\* servers: the log never goes back to an earlier target, a target before
\* the current one is in a terminal state and one after it has not
\* started; and a fan-out takes its recipients one at a time in list order
C7_Sequential ==
    /\ \A j \in 1..(Len(log) - 1) : log[j].t <= log[j + 1].t
    /\ \A j \in 1..Len(log) : log[j].t <= idx
    /\ \A i \in 1..Len(servers) :
          /\ i < idx => stage[i] \in Terminal
          /\ i > idx => stage[i] = "Pending"
    /\ pc = "fanout" => Recipients(idx) \o devices = FanoutList(nobj)

\* the second target's notifier has gone through a list of two recipients
C7_Witness ==
    /\ pc = "fanout"
    /\ idx = 2
    /\ stage[1] \in Terminal
    /\ devices = << >>
    /\ Len(Recipients(2)) = 2

\* the string parse_url is first called with for target t
RawOf(t) == Replace(servers[t], "/#", "/%23")

\* C8: a raw target is rewritten only when the first parse_url call gave
\* None and the string matches the Telegram pattern; parse_url is called
\* at most twice for a target, and the result of a first call that
\* succeeded is the server that is used
C8_RewriteOnlyAfterFailure ==
    /\ \A j \in 1..Len(log) :
          log[j].k = "decompose" =>
             /\ log[j].n \in {1, 2}
             /\ (log[j].n = 2) = (log[j].r # NoneVal)
             /\ log[j].r # NoneVal =>
                   /\ ~parse_url(RawOf(log[j].t), "unknown", TRUE).ok
                   /\ tgram_match(RawOf(log[j].t)).ok
             /\ parse_url(RawOf(log[j].t), "unknown", TRUE).ok =>
                   log[j].r = NoneVal
    /\ \A t \in 1..Len(servers) :
          Len(EventsOf(t, {"decompose"})) <= 1
    /\ (pc = "lookup" /\ parse_url(RawOf(idx), "unknown", TRUE).ok) =>
          server = parse_url(RawOf(idx), "unknown", TRUE)

\* one target was rewritten and parsed again, and another one that
\* matches the pattern was not, because its first parse succeeded
C8_Witness ==
    /\ Len(log) >= 2
    /\ \E j \in 1..Len(log) :
          /\ log[j].k = "decompose"
          /\ log[j].r # NoneVal
          /\ log[j].n = 2
    /\ \E j \in 1..Len(log) :
          /\ log[j].k = "decompose"
          /\ log[j].r = NoneVal
          /\ tgram_match(RawOf(log[j].t)).ok

\* the loop over the servers has come to its end or was left
LoopOver == pc = "returned" \/ (pc = "raised" /\ log # << >>)

C2_DeliveryNeverAborts ==
    ~(pc = "raised" /\ idx \in 1..Len(servers) /\ stage[idx] = "Validated")

\* C3: a target with a missing or malformed field of its backend is a
\* validation failure: no exception leaves notify while the arguments are
\* extracted and the notifier is constructed
C3_ValidationNeverRaises ==
    ~(pc = "raised" /\ idx \in 1..Len(servers) /\ stage[idx] = "Routed")

\* the kinds of the stages target t has gone through, in order
StagesOf(t) ==
    [i \in 1..Len(EventsOf(t, {"decompose", "lookup", "extract",
                               "construct", "notify"})) |->
        EventsOf(t, {"decompose", "lookup", "extract",
                     "construct", "notify"})[i].k]

StageOrder == <<"decompose", "lookup", "extract", "construct", "notify">>

\* C4: every target goes through the stages in their order and ends in
\* exactly one terminal state; after a failed stage no later stage runs
C4_StagesInOrder ==
    \A t \in 1..Len(servers) :
        /\ StagesOf(t) = SubSeq(StageOrder, 1, Len(StagesOf(t)))
        /\ stage[t] = "Pending" => StagesOf(t) = << >>
        /\ stage[t] = "ParseFailed" => StagesOf(t) = SubSeq(StageOrder, 1, 1)
        /\ stage[t] = "RoutingFailed" => StagesOf(t) = SubSeq(StageOrder, 1, 2)
        /\ stage[t] = "ValidationFailed" =>
              StagesOf(t) = SubSeq(StageOrder, 1, 4)
        /\ stage[t] \in {"ParseFailed", "RoutingFailed", "ValidationFailed"}
              => EventsOf(t, {"send", "skip", "throttle", "return"}) = << >>
        /\ LoopOver => stage[t] \in Terminal

\* the IncludeImage setting is a URL of a scheme that is not supported, or
\* of a file that does not exist
ImageRejected ==
    \E u \in {parse_url(IncludeImage, "http", TRUE)} :
        /\ u.ok
        /\ \/ ~IsImageSchema(u.schema)
           \/ u.schema = "file" /\ ~FileExists(u.fullpath)

\* C6: with such an IncludeImage notify returns False and no target is
\* decomposed, constructed or notified; it returns False in no other case
C6_InvalidImageReturnsFalse ==
    pc # "start" =>
        /\ ImageRejected => (pc = "rejected" /\ ret = "False" /\ log = << >>)
        /\ ret = "False" => ImageRejected

\* the sends and throttles of target t, in order
SendsOf(t) == EventsOf(t, {"send", "throttle"})

\* C9: in the fan-out of a notifier throttle() is called once between two
\* consecutive sends and never after the last send
C9_ThrottleBetweenSends ==
    \A t \in 1..Len(servers) :
        stage[t] \in {"Delivered", "DeliveryFailed"} =>
            \A j \in 1..Len(SendsOf(t)) :
                /\ SendsOf(t)[j].k = "throttle" =>
                      /\ 1 < j
                      /\ j < Len(SendsOf(t))
                      /\ SendsOf(t)[j - 1].k = "send"
                      /\ SendsOf(t)[j + 1].k = "send"
                /\ (SendsOf(t)[j].k = "send" /\ j < Len(SendsOf(t))) =>
                      SendsOf(t)[j + 1].k = "throttle"

\* C10: the title and the body _notify is called with are no longer than
\* title_maxlen and body_maxlen, in the format text and in the format html
C10_WithinMaxLen ==
    pc = "called" =>
        /\ Len(call.title) <= nobj.title_maxlen
        /\ Len(call.body) <= nobj.body_maxlen

\* C11: for a target whose notifier was invoked, NotifyBase.notify returned
\* True exactly when every request the backend made was answered with
\* success, for the fan-out backends as for those with one request
C11_ReturnsTrueIffAllSent ==
    \A t \in 1..Len(servers) :
        stage[t] \in {"Delivered", "DeliveryFailed"} =>
            ((stage[t] = "Delivered") =
                (\A j \in 1..Len(EventsOf(t, {"send"})) :
                     http_status(EventsOf(t, {"send"})[j].r) = 200))

C14_PortPositive ==
    (pc = "parsed" /\ result.ok) =>
        \/ result.port = PortNone
        \/ result.port.t = "int" /\ result.port.v >= 1

\* C15: a string scheme://host is parsed, its schema is the scheme in
\* lower case and its host is the host given; and the schema of every
\* result is in lower case and not empty
C15_SchemeLowercased ==
    pc = "parsed" =>
        /\ (/\ given.scheme # ""
            /\ {given.user, given.port, given.quser, given.qpass,
                given.qkey} = {NoneVal}
            /\ given.path = "") =>
               /\ result.ok
               /\ result.schema = Lower(given.scheme)
               /\ result.host = given.host
               /\ result.host # ""
        /\ (result.ok /\ given.scheme # "") =>
               result.schema = Lower(given.scheme)
        /\ result.ok =>
               /\ result.schema # ""
               /\ result.schema = Lower(result.schema)

\* HTTPS://H.example.com was parsed
C15_Witness ==
    /\ pc = "parsed"
    /\ url = "HTTPS://H.example.com"
    /\ result.ok
    /\ result.schema = "https"
    /\ result.host = "H.example.com"

\* C16: a string that has no scheme:// and starts with a host is parsed,
\* its schema is default_schema and its host is the host it starts with
C16_DefaultSchemeApplied ==
    (pc = "parsed" /\ given.scheme = "" /\ given.user = NoneVal) =>
        /\ result.ok
        /\ result.schema = default_schema
        /\ result.host = given.host

C18_Idempotent ==
    (pc = "parsed" /\ result.ok) =>
        /\ again.ok
        /\ again.schema = result.schema
        /\ again.user = result.user
        /\ again.password = result.password
        /\ again.host = result.host
        /\ again.port = result.port
        /\ again.fullpath = result.fullpath
        /\ again.path = result.path
        /\ again.query = result.query
        /\ again.qsd = result.qsd

(***************************************************************************)
(* Properties of the secure flag.                                          *)
(***************************************************************************)
\* C19: the secure flag given to the notifier of a routed target is True
\* exactly when its schema ends in 's'; every schema of SCHEMA_MAP that
\* ends in 's' has its base schema (without the 's') in SCHEMA_MAP too,
\* with the same class
C19_SecureIffTrailingS ==
    /\ pc = "construct" =>
          /\ server.schema \in DOMAIN SCHEMA_MAP
          /\ args.secure = (LastCh(server.schema) = "s")
          /\ args.secure =>
                /\ Upto(server.schema, Len(server.schema) - 1)
                       \in DOMAIN SCHEMA_MAP
                /\ SCHEMA_MAP[Upto(server.schema, Len(server.schema) - 1)]
                       = SCHEMA_MAP[server.schema]
    /\ \A s \in DOMAIN SCHEMA_MAP :
          LastCh(s) = "s" =>
             /\ Upto(s, Len(s) - 1) \in DOMAIN SCHEMA_MAP
             /\ SCHEMA_MAP[Upto(s, Len(s) - 1)] = SCHEMA_MAP[s]

\* a kodis target was routed and its notifier is given secure = True
C19_Witness ==
    /\ pc = "construct"
    /\ server.schema = "kodis"
    /\ args.secure
    /\ SCHEMA_MAP[server.schema] = SCHEMA_MAP["kodi"]

(***************************************************************************)
(* Properties of the image of a notifier.                                  *)
(***************************************************************************)
\* C12: the image is the override URL when the constructor was given one;
\* otherwise the file of the override path when the constructor was given
\* one; otherwise the image of the package for (notify_type, image_size);
\* and there is no image without override and without image size
C12_ImagePriority ==
    pc = "resolved" =>
        /\ args.override_image_url # NoneVal =>
               image.url = args.override_image_url
        /\ (args.override_image_url = NoneVal
            /\ args.override_image_path # NoneVal) =>
               image.raw = ReadFile(args.override_image_path, given)
        /\ (args.override_image_url = NoneVal
            /\ args.override_image_path = NoneVal
            /\ nobj.image_size # NoneVal
            /\ notify_type \in NOTIFY_TYPES) =>
               /\ image.url = re_table_sub(NOTIFY_IMAGE_URL, notify_type,
                                           nobj.image_size)
               /\ image.raw = ReadFile(re_table_sub(NOTIFY_IMAGE_FILE,
                                                    notify_type,
                                                    nobj.image_size), given)
        /\ (args.override_image_url = NoneVal
            /\ args.override_image_path = NoneVal
            /\ nobj.image_size = NoneVal) =>
               /\ image.url = NoneVal
               /\ image.raw = NoneVal

(***************************************************************************)
(* Properties of the recipients of NotifyPushBullet.                       *)
(***************************************************************************)
\* C20: every recipient segment is taken for exactly one of channel, email
\* and device: a segment that begins with '#' for a channel, a segment that
\* matches the email pattern for an email, every other for a device
C20_SegmentClassification ==
    \A i \in 1..Len(log) :
        log[i].k \in {"channel_tag", "email", "device_iden"} =>
            log[i].k = IF Ch(log[i].r, 1) = "#" THEN "channel_tag"
                       ELSE IF IS_EMAIL_RE(log[i].r) THEN "email"
                       ELSE "device_iden"

(***************************************************************************)
(* Properties of the list delimiters.                                      *)
(***************************************************************************)
\* C21: the delimiter of the dispatcher and the delimiter of each backend
\* split a path string into the same sequence of segments
C21_SameDelimiters ==
    pc = "splitted" =>
        /\ result.pushover = result.dispatcher
        /\ result.toasty = result.dispatcher
        /\ result.telegram = result.dispatcher
        /\ result.pushbullet = result.dispatcher

(***************************************************************************)
(* Properties of the IncludeImage option.                                  *)
(***************************************************************************)
\* C22: with IncludeImage=no the notifier is constructed with include_image
\* False and without override image, with IncludeImage=yes with
\* include_image True and without override image; an override image is
\* set only by a value that is a http, https or file URL
C22_IncludeImageSwitch ==
    pc = "notify" =>
        /\ IncludeImage = "no" =>
               /\ ~args.include_image /\ ~nobj.include_image
               /\ args.override_image_url = NoneVal
               /\ args.override_image_path = NoneVal
        /\ IncludeImage = "yes" =>
               /\ args.include_image /\ nobj.include_image
               /\ args.override_image_url = NoneVal
               /\ args.override_image_path = NoneVal
        /\ ({args.override_image_url, args.override_image_path} # {NoneVal}) =>
               \E pre \in {"http://", "https://", "file://"} :
                   Lower(Upto(IncludeImage, Len(pre))) = pre

(***************************************************************************)
(* Properties of the body the targets are given.                           *)
(***************************************************************************)
\* C28: the title and the body the notifier of a target is called with are
\* those notify was called with, the body cut to two lines for a Growl, an
\* XBMC/Kodi or a Join target, whatever targets come before it in servers
C28_BodyIndependentOfOrder ==
    pc = "notify" =>
        /\ title = Title
        /\ body = IF SCHEMA_MAP[server.schema]
                         \in {"NotifyGrowl", "NotifyXBMC", "NotifyJoin"}
                  THEN ShortenBody(Body) ELSE Body

(***************************************************************************)
(* Properties of the fan-out of one notifier.                              *)
(***************************************************************************)
\* whether the fan-out of notifier o sends to recipient r of its list
ValidRecipient(o, r) ==
    CASE o.class = "NotifyPushover" ->
             r = PUSHOVER_SEND_TO_ALL \/ VALIDATE_DEVICE(r)
      [] o.class = "NotifyTelegram" -> IS_CHAT_ID_RE(r).ok
      [] OTHER -> TRUE

\* whether the request of notifier o for recipient r is answered with 200
SendSucceeds(o, r) ==
    http_status(IF o.class # "NotifyTelegram" THEN r
                ELSE IF IS_CHAT_ID_RE(r).name # NoneVal
                THEN "@" \o IS_CHAT_ID_RE(r).name
                ELSE IS_CHAT_ID_RE(r).idno) = 200

\* the recipients of the list of the current notifier the fan-out is
\* through with
Passed == SubSeq(FanoutList(nobj), 1, Len(FanoutList(nobj)) - Len(devices))

\* C30: a send that fails does not end the fan-out; the recipients sent to
\* are the valid ones of the list, once each and in the order of the list;
\* and has_error is set exactly when a recipient was not valid or its send
\* failed
C30_FanoutContinues ==
    /\ ~(/\ pc = "raised"
         /\ log # << >>
         /\ log[Len(log)].k = "send"
         /\ nobj.class \in FanoutClasses)
    /\ pc = "fanout" =>
          /\ [i \in 1..Len(EventsOf(idx, {"send"})) |->
                 EventsOf(idx, {"send"})[i].r]
                = SelectSeq(Passed, LAMBDA r : ValidRecipient(nobj, r))
          /\ has_error = \E i \in 1..Len(Passed) :
                            \/ ~ValidRecipient(nobj, Passed[i])
                            \/ ~SendSucceeds(nobj, Passed[i])

(***************************************************************************)
(* Properties of the arguments of the notifier.                            *)
(***************************************************************************)
\* the user and the password the authority part of target t gives: the
\* url parsed without the credentials of the query string
Authority(t) == parse_url(Replace(servers[t], "/#", "/%23"), "unknown", FALSE)

\* C29: where the authority of a target gives a user or a password, the
\* user or password argument the notifier is constructed with is not the
\* value of the user= or pass= parameter of the query string
C29_AuthorityWinsInArgs ==
    pc = "construct" =>
        /\ (/\ Authority(idx).user # NoneVal
            /\ Get(server.qsd, "user", "") # ""
            /\ unquote(server.qsd["user"]) # Authority(idx).user)
              => args.user # unquote(server.qsd["user"])
        /\ (/\ Authority(idx).password # NoneVal
            /\ Get(server.qsd, "pass", "") # ""
            /\ unquote(server.qsd["pass"]) # Authority(idx).password)
              => args.password # unquote(server.qsd["pass"])

(***************************************************************************)
(* Properties of the servers argument of notify.                           *)
(***************************************************************************)
\* C26: given a string as servers, notify goes through the urls that
\* splitting that string gives; given a list, through its elements
C26_TargetsOfArgument ==
    pc = "entered" =>
        IF given.is_string
        THEN /\ {result.servers[i] : i \in 1..Len(result.servers)}
                   = parse_list(given.string)
             /\ Len(result.servers) = Cardinality(parse_list(given.string))
        ELSE result.servers = given.list

(***************************************************************************)
(* Properties of postprocess_main.                                         *)
(***************************************************************************)
\* postprocess_main has been called and has gone as far as its return or
\* its call of notify
PostProcessed == "called" \in DOMAIN result /\ result.called = "postprocess_main"

\* no target has been attempted
NothingAttempted == log = << >> /\ servers = << >>

\* the statement of C23 as it was made: postprocess_main notifies exactly
\* when the health check passes and OnSuccess is yes, or fails and
\* OnFailure is yes, with the type success or failure; in every other case
\* it returns None and attempts no target
C23_AsStated ==
    PostProcessed =>
        IF \/ postprocess_health_check(given) /\ given.OnSuccess = "yes"
           \/ ~postprocess_health_check(given) /\ given.OnFailure = "yes"
        THEN /\ result.dispatch
             /\ notify_type = IF postprocess_health_check(given)
                              THEN "success" ELSE "failure"
        ELSE /\ ~result.dispatch
             /\ ret = NoneVal
             /\ NothingAttempted

\* C23: where the validation of the environment passes, postprocess_main
\* notifies exactly when the health check passes and OnSuccess is yes, or
\* fails and OnFailure is yes, with the type success or failure, and
\* otherwise returns None and attempts no target; where the validation
\* fails it returns False and attempts no target
C23_NotifiesWhenAsked ==
    PostProcessed =>
        IF ~postprocess_validate(given, PostProcessKeys)
        THEN /\ ~result.dispatch
             /\ pc = "postprocessed"
             /\ ret = "False"
             /\ NothingAttempted
        ELSE IF \/ postprocess_health_check(given) /\ given.OnSuccess = "yes"
                \/ ~postprocess_health_check(given) /\ given.OnFailure = "yes"
        THEN /\ result.dispatch
             /\ pc # "postprocessed"
             /\ notify_type = IF postprocess_health_check(given)
                              THEN "success" ELSE "failure"
        ELSE /\ ~result.dispatch
             /\ pc = "postprocessed"
             /\ ret = NoneVal
             /\ NothingAttempted

\* a failed download with OnFailure yes and OnSuccess no: the notifier of
\* the Faast target is about to be called with the type failure
C23_Witness ==
    /\ PostProcessed
    /\ postprocess_validate(given, PostProcessKeys)
    /\ ~postprocess_health_check(given)
    /\ given.OnFailure = "yes"
    /\ given.OnSuccess = "no"
    /\ notify_type = "failure"
    /\ title = "Download Failed"
    /\ pc = "notify"
    /\ nobj.class = "NotifyFaast"

(***************************************************************************)
(* Properties of ScriptBase.run.                                           *)
(***************************************************************************)
\* run has been called
RunCalled == "called" \in DOMAIN result /\ result.called = "run"

\* C24: run returns one of the five exit codes whatever the main function
\* does: SUCCESS for True, FAILURE for False, NONE for None, FAILURE for
\* any other value that is no exit code and for an exception, and the
\* code of an NZBGetExitException; no exception leaves run
C24_AlwaysAnExitCode ==
    RunCalled =>
        /\ result.raised = NoneVal
        /\ pc = "ran"
        /\ result.exit_code \in 91..95
        /\ result.exit_code =
              CASE given.t = "bool" -> IF given.v = 1 THEN 93 ELSE 94
                [] given.t = "none" -> 95
                [] given.t \in {"int", "exit"} /\ given.v \in 91..95 -> given.v
                [] OTHER -> 94

(***************************************************************************)
(* Properties of is_unique_instance.                                       *)
(***************************************************************************)
\* C25: of two running processes that call is_unique_instance on the same
\* PID file at most one gets True, and a process gets True only when the
\* PID file holds its own pid
C25_UniqueInstance ==
    pc = "pid" =>
        /\ Cardinality({p \in Procs : procs[p].last = "True"}) <= 1
        /\ \A p \in Procs : procs[p].last = "True" => procs[p].own

(***************************************************************************)
(* Properties of the SABnzbd wrapper.                                      *)
(***************************************************************************)
\* C27: notify of the wrapper always returns; a child that is still
\* running NOTIFY_MAX_WAIT_TIME_SEC after its start is killed; and notify
\* returns True exactly when the exit code of the child is 0 or 93
C27_AlwaysReturns ==
    /\ []((pc = "sleep" /\ now >= max_wait_time) => child.state # "running")
    /\ <>(pc = "returned")
    /\ [](pc = "returned" =>
             (ret = "True" <=> (child.state = "exited" /\ child.code \in {0, 93})))

====
